---- MODULE Spec2Model ----
(***************************************************************************)
(* A model of the pt-analytics reliability pipeline: stop-event detection, *)
(* stop matching, headway baselines, bunching classification, pattern      *)
(* aggregation, component scores and the service reliability index.        *)
(*                                                                         *)
(* Units.  Coordinates are integers in units of 0.00001 degree.  The clock *)
(* and every timestamp count polling rounds of 10 seconds.  Minute-valued  *)
(* statistics are exact rationals [n |-> numerator, d |-> denominator].    *)
(* Scores are integers in hundredths of a point (DECIMAL(5,2)).            *)
(***************************************************************************)
EXTENDS Integers, Sequences, FiniteSets, TLC

VARIABLES
    pc,                 \* which operation ran last
    positions_list,     \* the list given to find_stop_events
    stop_events,        \* the list returned by find_stop_events
    txc_rows,           \* the route-stop rows StopMatcher.__init__ fetched, in fetch order
    stop_event,         \* the event given to StopMatcher.match
    match_result,       \* what StopMatcher.match returned
    now,                \* the database clock NOW()
    vehicle_positions,  \* table vehicle_positions
    vehicle_arrivals,   \* table vehicle_arrivals, in insertion order
    route_headway_baselines,         \* table route_headway_baselines
    route_headway_baselines_hourly,  \* table route_headway_baselines_hourly
    bunching_by_route_stop_hour,     \* table bunching_by_route_stop_hour
    arrivals_with_baseline,          \* the rows of CTE arrivals_with_baseline of the last bunching run
    headway_patterns,                \* table headway_patterns
    schedule_adherence_patterns,     \* table schedule_adherence_patterns
    journey_time_patterns,           \* table journey_time_patterns
    service_delivery_patterns,       \* table service_delivery_patterns
    headway_consistency_scores,      \* table headway_consistency_scores
    schedule_adherence_scores,       \* table schedule_adherence_scores
    journey_time_consistency_scores, \* table journey_time_consistency_scores
    service_delivery_scores,         \* table service_delivery_scores
    service_reliability_index,       \* table service_reliability_index, in insertion order
    network_reliability_index,       \* table network_reliability_index, in insertion order
    sri_config,                      \* table sri_config
    api_request,        \* the year, month and operator context of the last API call
    api_response,       \* what the last API call returned
    bunching_by_hour,   \* table bunching_by_hour
    bunching_by_stop,   \* table bunching_by_stop
    dwell_time_analysis,\* table dwell_time_analysis
    lock_holder,        \* the invocation that holds the flock on /tmp/pt_analysis.lock
    invocation,         \* where each invocation of the cron entry point stands
    postgis_result      \* what match_vehicle_to_stop returned

detVars == <<positions_list, stop_events>>

matchVars == <<txc_rows, stop_event, match_result>>

passVars == <<now, vehicle_positions, vehicle_arrivals>>

bunchVars == <<route_headway_baselines, route_headway_baselines_hourly,
               bunching_by_route_stop_hour, arrivals_with_baseline>>

patternVars == <<schedule_adherence_patterns, journey_time_patterns,
                 service_delivery_patterns>>

scoreVars == <<headway_consistency_scores, schedule_adherence_scores,
               journey_time_consistency_scores, service_delivery_scores>>

indexVars == <<service_reliability_index, network_reliability_index>>

sriVars == <<patternVars, scoreVars, indexVars, sri_config>>

statVars == <<bunchVars, headway_patterns, sriVars>>

apiVars == <<api_request, api_response>>

aggVars == <<bunching_by_hour, bunching_by_stop, dwell_time_analysis>>

lockVars == <<lock_holder, invocation>>

extVars == <<aggVars, lockVars, postgis_result>>

vars == <<pc, positions_list, stop_events, txc_rows, stop_event, match_result,
          now, vehicle_positions, vehicle_arrivals, statVars, apiVars, extVars>>

\* Python None / SQL NULL in a text column.
NULL == "NULL"

(***************************************************************************)
(* Generic helpers.                                                        *)
(***************************************************************************)
Abs(x) == IF x < 0 THEN -x ELSE x

Max(a, b) == IF a >= b THEN a ELSE b

Min(a, b) == IF a <= b THEN a ELSE b

\* dict.get(key, default)
DictGet(d, k, default) == IF k \in DOMAIN d THEN d[k] ELSE default

RECURSIVE SeqsUpTo(_, _)
SeqsUpTo(S, n) ==
    IF n = 0 THEN {<<>>}
    ELSE LET shorter == SeqsUpTo(S, n - 1)
         IN  shorter \cup {Append(s, x) : s \in {t \in shorter : Len(t) = n - 1}, x \in S}

RECURSIVE SumSeq(_)
SumSeq(s) == IF s = <<>> THEN 0 ELSE Head(s) + SumSeq(Tail(s))

(***************************************************************************)
(* Stop Event Detector (src/processing/stop_detector.py).                  *)
(***************************************************************************)
\* 0.00005 degree, the same-location tolerance.
SameLocTol == 5

\* Seconds credited per polled sample.
PollSeconds == 10

\* lat_diff < 0.00005 and lon_diff < 0.00005, against the first sample of the run.
SameLocation(p, anchor) ==
    /\ Abs(p.latitude - anchor.latitude) < SameLocTol
    /\ Abs(p.longitude - anchor.longitude) < SameLocTol

\* by_vehicle keys in insertion order (first appearance in the input).
RECURSIVE VehicleOrder(_)
VehicleOrder(ps) ==
    IF ps = <<>> THEN <<>>
    ELSE LET v == Head(ps).vehicle_id
         IN  <<v>> \o VehicleOrder(SelectSeq(Tail(ps), LAMBDA p : p.vehicle_id # v))

\* by_vehicle[vid]
ByVehicle(ps, vid) == SelectSeq(ps, LAMBDA p : p.vehicle_id = vid)

\* list.sort(key=timestamp): a stable sort.
RECURSIVE InsertByTimestamp(_, _)
InsertByTimestamp(sorted, p) ==
    IF sorted = <<>> THEN <<p>>
    ELSE IF Head(sorted).timestamp <= p.timestamp
         THEN <<Head(sorted)>> \o InsertByTimestamp(Tail(sorted), p)
         ELSE <<p>> \o sorted

RECURSIVE SortByTimestamp(_)
SortByTimestamp(ps) ==
    IF ps = <<>> THEN <<>>
    ELSE InsertByTimestamp(SortByTimestamp(SubSeq(ps, 1, Len(ps) - 1)), ps[Len(ps)])

\* The inner while loop: the first index j > i whose sample left the anchor's location.
RECURSIVE RunEnd(_, _, _)
RunEnd(positions, i, j) ==
    IF j <= Len(positions) /\ SameLocation(positions[j], positions[i])
    THEN RunEnd(positions, i, j + 1)
    ELSE j

IsStopEvent_mut(dwell_count) == dwell_count >= 1

\* if dwell_count >= 2
IsStopEvent(dwell_count) == dwell_count >= 2

\* 'dwell_time_seconds': dwell_count * 10
DwellSeconds(dwell_count) == dwell_count * PollSeconds

\* The dict appended to stops.
MakeStopEvent(vehicle_id, first, dwell_count) ==
    [vehicle_id         |-> vehicle_id,
     route_id           |-> DictGet(first, "route_id", NULL),
     latitude           |-> first.latitude,
     longitude          |-> first.longitude,
     stop_timestamp     |-> first.timestamp,
     dwell_time_seconds |-> DwellSeconds(dwell_count),
     poll_count         |-> dwell_count]

\* The outer while loop over one vehicle's sorted timeline, from index i.
RECURSIVE ScanTimeline(_, _, _)
ScanTimeline(vehicle_id, positions, i) ==
    IF i > Len(positions) THEN <<>>
    ELSE LET j == RunEnd(positions, i, i + 1)
             dwell_count == j - i
             next_i == IF j > i + 1 THEN j ELSE i + 1
             emitted == IF IsStopEvent(dwell_count)
                        THEN <<MakeStopEvent(vehicle_id, positions[i], dwell_count)>>
                        ELSE <<>>
         IN  emitted \o ScanTimeline(vehicle_id, positions, next_i)

RECURSIVE ScanVehicles(_, _)
ScanVehicles(ps, order) ==
    IF order = <<>> THEN <<>>
    ELSE ScanTimeline(Head(order), SortByTimestamp(ByVehicle(ps, Head(order))), 1)
         \o ScanVehicles(ps, Tail(order))

find_stop_events(position_dicts) ==
    IF position_dicts = <<>> THEN <<>>
    ELSE ScanVehicles(position_dicts, VehicleOrder(position_dicts))

\* Python None as a coordinate: the value of a NULL latitude or longitude.  It
\* lies outside every coordinate grid of the specifications.
None == -1000000

\* abs(positions[j]['latitude'] - current_lat) and the same for the longitude:
\* both are evaluated before the test, and a None operand raises TypeError.
SubtractionRaises(p, anchor) ==
    \/ None \in {p.latitude, anchor.latitude}
    \/ None \in {p.longitude, anchor.longitude}

\* The inner while loop from index j raises before it ends.
RECURSIVE RunRaises(_, _, _)
RunRaises(positions, i, j) ==
    IF j > Len(positions) THEN FALSE
    ELSE IF SubtractionRaises(positions[j], positions[i]) THEN TRUE
    ELSE IF SameLocation(positions[j], positions[i])
         THEN RunRaises(positions, i, j + 1)
         ELSE FALSE

\* The outer while loop over one vehicle's sorted timeline, from index i, raises.
RECURSIVE TimelineRaises(_, _)
TimelineRaises(positions, i) ==
    IF i > Len(positions) THEN FALSE
    ELSE IF RunRaises(positions, i, i + 1) THEN TRUE
    ELSE LET j == RunEnd(positions, i, i + 1)
         IN  TimelineRaises(positions, IF j > i + 1 THEN j ELSE i + 1)

\* find_stop_events raises TypeError instead of returning a list.
find_stop_events_raises(position_dicts) ==
    \E k \in 1..Len(position_dicts) :
        TimelineRaises(SortByTimestamp(ByVehicle(position_dicts,
                                                 position_dicts[k].vehicle_id)), 1)

(***************************************************************************)
(* In-memory stop matcher (cron_scripts/run_analysis.py).                  *)
(*                                                                         *)
(* haversine_distance is modelled on the coordinate grid by the planar     *)
(* distance it equals at city scale: one unit of latitude is LatCm         *)
(* centimetres and one unit of longitude LonCm centimetres.  Distances are *)
(* kept and compared as squares of centimetres, which orders them as the   *)
(* distances themselves.                                                   *)
(***************************************************************************)
LatCm == 100

LonCm == 60

\* radius_m = 30.0, in centimetres.
MatchRadiusCm == 3000

\* The value of match() when it returns None.
NoMatch == [matched |-> FALSE]

\* Python truthiness of an optional string: None and '' are false.
Truthy(str) == str # NULL /\ str # ""

\* Square of haversine_distance(lat1, lon1, lat2, lon2), in square centimetres.
haversine_distance_sq(lat1, lon1, lat2, lon2) ==
    (LatCm * (lat2 - lat1)) * (LatCm * (lat2 - lat1))
        + (LonCm * (lon2 - lon1)) * (LonCm * (lon2 - lon1))

\* route_name in self.route_stops
RouteInIndex(rows, route_name) ==
    \E i \in 1..Len(rows) : rows[i].route_name = route_name

\* direction in self.route_stops[route_name]
DirectionInIndex(rows, route_name, direction) ==
    \E i \in 1..Len(rows) : rows[i].route_name = route_name /\ rows[i].direction = direction

\* self.route_stops[route_name][direction]: the stops in fetch order.
RouteStops(rows, route_name, direction) ==
    SelectSeq(rows, LAMBDA r : r.route_name = route_name /\ r.direction = direction)

\* The keys of self.route_stops[route_name], in insertion order.
RECURSIVE DirectionOrder(_, _)
DirectionOrder(rows, route_name) ==
    IF rows = <<>> THEN <<>>
    ELSE LET r == Head(rows)
         IN  IF r.route_name = route_name
             THEN <<r.direction>> \o
                  DirectionOrder(SelectSeq(Tail(rows),
                                           LAMBDA q : ~(q.route_name = route_name
                                                        /\ q.direction = r.direction)),
                                 route_name)
             ELSE DirectionOrder(Tail(rows), route_name)

\* for dir_stops in self.route_stops[route_name].values(): candidates.extend(dir_stops)
RECURSIVE AllDirectionStops(_, _, _)
AllDirectionStops(rows, route_name, dirs) ==
    IF dirs = <<>> THEN <<>>
    ELSE RouteStops(rows, route_name, Head(dirs))
         \o AllDirectionStops(rows, route_name, Tail(dirs))

\* The candidate list of match().
Candidates(rows, route_name, direction) ==
    IF Truthy(direction) /\ DirectionInIndex(rows, route_name, direction)
    THEN RouteStops(rows, route_name, direction)
    ELSE IF direction = NULL
         THEN AllDirectionStops(rows, route_name, DirectionOrder(rows, route_name))
         ELSE <<>>

IsNearer_mut(distance, best_distance) == distance <= best_distance

\* if distance < best_distance
IsNearer(distance, best_distance) == distance < best_distance

\* The loop over candidates: best is [found, stop, dsq].
RECURSIVE NearestScan(_, _, _, _)
NearestScan(lat, lon, candidates, best) ==
    IF candidates = <<>> THEN best
    ELSE LET stop == Head(candidates)
             distance == haversine_distance_sq(lat, lon, stop.latitude, stop.longitude)
         IN  IF IsNearer(distance, best.dsq)
             THEN NearestScan(lat, lon, Tail(candidates),
                              [found |-> TRUE, stop |-> stop, dsq |-> distance])
             ELSE NearestScan(lat, lon, Tail(candidates), best)

\* StopMatcher.match(stop_event, radius_m) over the index built from rows.
StopMatcher_match(rows, event, radius_cm) ==
    LET route_name == DictGet(event, "route_name", NULL)
        direction == DictGet(event, "direction", NULL)
        timestamp == IF DictGet(event, "timestamp", 0) # 0
                     THEN event.timestamp
                     ELSE DictGet(event, "stop_timestamp", 0)
    IN  IF ~Truthy(route_name) \/ ~RouteInIndex(rows, route_name)
        THEN NoMatch
        ELSE LET candidates == Candidates(rows, route_name, direction)
                 best == NearestScan(event.latitude, event.longitude, candidates,
                                     [found |-> FALSE, dsq |-> radius_cm * radius_cm])
             IN  IF candidates = <<>> \/ ~best.found
                 THEN NoMatch
                 ELSE [matched     |-> TRUE,
                       vehicle_id  |-> event.vehicle_id,
                       route_name  |-> route_name,
                       direction   |-> direction,
                       naptan_id   |-> best.stop.naptan_id,
                       distance_sq |-> best.dsq,
                       timestamp   |-> timestamp]

(***************************************************************************)
(* The PostGIS matcher (src/processing/vehicle_matcher.py) over the same   *)
(* rows of the txc_stops / txc_pattern_stops / txc_route_patterns join.    *)
(***************************************************************************)
\* ST_DWithin(s.geog, point, radius): the distance is at most the radius
ST_DWithin(dsq, radius_cm) == dsq <= radius_cm * radius_cm

\* WHERE rp.route_name = %s [AND rp.direction = %s]: the filter on the
\* direction is part of the query only 'if direction:'
\* (mutation: the filter is never part of the query)
RouteFilter_mut(row, route_name, direction) ==
    row.route_name = route_name

\* WHERE rp.route_name = %s [AND rp.direction = %s]: the filter on the
\* direction is part of the query only 'if direction:'
RouteFilter(row, route_name, direction) ==
    /\ row.route_name = route_name
    /\ (Truthy(direction) => row.direction = direction)

\* SELECT DISTINCT naptan_id, stop_name, distance ... WHERE ...: the rows of the
\* query before ORDER BY and LIMIT.
StopsWithin(rows, lat, lon, route_name, direction, radius_cm) ==
    {[naptan_id |-> rows[i].naptan_id,
      distance  |-> haversine_distance_sq(lat, lon, rows[i].latitude, rows[i].longitude)] :
        i \in {k \in 1..Len(rows) :
                 /\ RouteFilter(rows[k], route_name, direction)
                 /\ ST_DWithin(haversine_distance_sq(lat, lon, rows[k].latitude,
                                                     rows[k].longitude), radius_cm)}}

\* ORDER BY distance LIMIT 1 and fetchone(): the rows the query may return.
\* PostgreSQL returns any one of the rows that share the least distance.
find_nearest_stop_for_route_postgis(rows, lat, lon, route_name, direction, radius_cm) ==
    LET found == StopsWithin(rows, lat, lon, route_name, direction, radius_cm)
    IN  {r \in found : \A q \in found : r.distance <= q.distance}

\* The dict match_vehicle_to_stop returns when it found no stop.
Unmatched(event, route_name) ==
    [matched    |-> FALSE,
     vehicle_id |-> event.vehicle_id,
     route_name |-> route_name,
     direction  |-> DictGet(event, "direction", NULL),
     naptan_id  |-> NULL,
     timestamp  |-> IF DictGet(event, "timestamp", 0) # 0
                    THEN event.timestamp
                    ELSE DictGet(event, "stop_timestamp", 0)]

\* match_vehicle_to_stop(vehicle_position): the dicts it may return.
match_vehicle_to_stop(rows, event) ==
    LET route_name == DictGet(event, "route_name", NULL)
        direction == DictGet(event, "direction", NULL)
        nearest == find_nearest_stop_for_route_postgis(rows, event.latitude,
                       event.longitude, route_name, direction, MatchRadiusCm)
    IN  IF ~Truthy(route_name) THEN {Unmatched(event, NULL)}
        ELSE IF nearest = {} THEN {Unmatched(event, route_name)}
        ELSE {[matched     |-> TRUE,
               vehicle_id  |-> event.vehicle_id,
               route_name  |-> route_name,
               direction   |-> direction,
               naptan_id   |-> n.naptan_id,
               distance_sq |-> n.distance,
               timestamp   |-> Unmatched(event, route_name).timestamp] : n \in nearest}

(***************************************************************************)
(* The analysis pass detect_and_match_stops (cron_scripts/run_analysis.py) *)
(* against the tables vehicle_positions and vehicle_arrivals, with the     *)
(* ingestion that fills vehicle_positions.  Timestamps and the clock count *)
(* polling rounds of 10 seconds.                                           *)
(***************************************************************************)
\* INTERVAL '30 minutes', in polling rounds.
AnalysisWindow == 180

\* OPERATOR_CODE_MAP.get(code, code)
OperatorName(code) ==
    CASE code \in {"A2BV", "AMSY", "ANWE"} -> "Arriva"
      [] code \in {"SCMY", "SCMR"} -> "Stagecoach"
      [] OTHER -> code

\* The collation order of the vehicle ids.
VehicleRank(vehicle_id) == IF vehicle_id = "V1" THEN 1 ELSE 2

\* ORDER BY vehicle_id, timestamp over a set of rows ((vehicle_id, timestamp) is unique).
RECURSIVE OrderByVehicleTime(_)
OrderByVehicleTime(rows) ==
    IF rows = {} THEN <<>>
    ELSE LET first == CHOOSE r \in rows :
                          \A q \in rows :
                              \/ VehicleRank(r.vehicle_id) < VehicleRank(q.vehicle_id)
                              \/ /\ r.vehicle_id = q.vehicle_id
                                 /\ r.timestamp <= q.timestamp
         IN  <<first>> \o OrderByVehicleTime(rows \ {first})

\* SELECT ... WHERE analyzed = false AND timestamp >= NOW() - INTERVAL '30 minutes'
UnanalyzedRecent(table, clock) ==
    {p \in table : ~p.analyzed /\ p.timestamp >= clock - AnalysisWindow}

\* One element of positions_list.
ToPositionDict(p) ==
    [vehicle_id |-> p.vehicle_id,
     route_name |-> p.route_name,
     direction  |-> p.direction,
     operator   |-> OperatorName(p.operator),
     latitude   |-> p.latitude,
     longitude  |-> p.longitude,
     timestamp  |-> p.timestamp]

\* float(p['latitude']) or float(p['longitude']) raises TypeError on None.
FloatRaises(p) == None \in {p.latitude, p.longitude}

\* UPDATE vehicle_positions SET analyzed = true WHERE analyzed = false
MarkAllAnalyzed(table) == {[p EXCEPT !.analyzed = TRUE] : p \in table}

\* The dict appended to arrivals for a matched event.
MakeArrival(event, result) ==
    [vehicle_id         |-> result.vehicle_id,
     route_name         |-> result.route_name,
     direction          |-> DictGet(result, "direction", NULL),
     operator           |-> DictGet(event, "operator", "Unknown"),
     naptan_id          |-> result.naptan_id,
     timestamp          |-> result.timestamp,
     distance_sq        |-> result.distance_sq,
     dwell_time_seconds |-> DictGet(event, "dwell_time_seconds", 0)]

\* The matching loop over stop_events.
RECURSIVE MatchAll(_, _)
MatchAll(rows, events) ==
    IF events = <<>> THEN <<>>
    ELSE LET result == StopMatcher_match(rows, Head(events), MatchRadiusCm)
         IN  (IF result.matched THEN <<MakeArrival(Head(events), result)>> ELSE <<>>)
             \o MatchAll(rows, Tail(events))

(***************************************************************************)
(* Exact arithmetic for the minute-valued statistics of the SQL            *)
(* aggregations.  A value is the fraction [n, d] in lowest terms, n >= 0   *)
(* and d > 0.                                                              *)
(***************************************************************************)
RECURSIVE GCD(_, _)
GCD(a, b) == IF b = 0 THEN a ELSE GCD(b, a % b)

Rat(n, d) == LET g == GCD(n, d) IN [n |-> n \div g, d |-> d \div g]

\* a * p / q
RatTimes(a, p, q) == Rat(a.n * p, a.d * q)

RatAdd(a, b) ==
    LET l == (a.d \div GCD(a.d, b.d)) * b.d
    IN  Rat(a.n * (l \div a.d) + b.n * (l \div b.d), l)

RatLess(a, b) == a.n * b.d < b.n * a.d

\* GREATEST(a, b)
RatGreatest(a, b) == IF RatLess(a, b) THEN b ELSE a

RECURSIVE RatSum(_)
RatSum(s) == IF s = <<>> THEN Rat(0, 1) ELSE RatAdd(Head(s), RatSum(Tail(s)))

\* AVG over the values of s
RatAvg(s) == RatTimes(RatSum(s), 1, Len(s))

\* ROUND(a::numeric, digits), for k = 10^digits: half rounds away from zero.
RatRound(a, k) == Rat((2 * a.n * k + a.d) \div (2 * a.d), k)

\* PERCENTILE_CONT(0.5) WITHIN GROUP (ORDER BY ...) over the ascending sequence s.
percentile_cont_50(s) ==
    LET n == Len(s)
    IN  IF n % 2 = 1 THEN s[(n + 1) \div 2]
        ELSE RatTimes(RatAdd(s[n \div 2], s[n \div 2 + 1]), 1, 2)

SetMax(S) == CHOOSE m \in S : \A x \in S : x <= m

(***************************************************************************)
(* Timestamps of arrivals and the clock count polling rounds of 10 seconds *)
(* from a clock origin at 08:00 of one day.                                *)
(***************************************************************************)
RoundsPerMinute == 6

RoundsPerHour == 60 * RoundsPerMinute

ClockZeroHour == 8

\* EXTRACT(HOUR FROM timestamp)
HourOf(t) == (ClockZeroHour + t \div RoundsPerHour) % 24

\* EXTRACT(EPOCH FROM (t1 - t0)) / 60
MinutesBetween(t1, t0) == Rat(t1 - t0, RoundsPerMinute)

\* The rows of table vehicle_arrivals.
ArrivalRows(table) == {table[i] : i \in 1..Len(table)}

\* LAG(timestamp) OVER (PARTITION BY ... ORDER BY timestamp) for row a of the
\* partition part: the set holding the previous timestamp, empty for the first row.
LagTimestamp(part, a) ==
    LET earlier == {b.timestamp : b \in {x \in part : x.timestamp < a.timestamp}}
    IN  IF earlier = {} THEN {} ELSE {SetMax(earlier)}

\* The headway values of a set of rows, ascending.
RECURSIVE OrderByHeadway(_)
OrderByHeadway(rows) ==
    IF rows = {} THEN <<>>
    ELSE LET first == CHOOSE r \in rows :
                          \A q \in rows : ~RatLess(q.headway_minutes, r.headway_minutes)
         IN  <<first.headway_minutes>> \o OrderByHeadway(rows \ {first})

(***************************************************************************)
(* Route headway baselines (scripts/aggregate_route_headways.py).          *)
(***************************************************************************)
\* INTERVAL '30 minutes'
OverallWindow == 30 * RoundsPerMinute

\* INTERVAL '7 days'
HourlyWindow == 7 * 24 * RoundsPerHour

\* The naptan_id values of txc_stops, for JOIN txc_stops ts ON va.naptan_id = ts.naptan_id.
TxcStopIds == {"S5", "S12", "S12E", "S30", "S40"}

\* An arbitrary enumeration of a finite set of rows.
RECURSIVE RowSeq(_)
RowSeq(rows) ==
    IF rows = {} THEN <<>>
    ELSE LET r == CHOOSE x \in rows : TRUE IN <<r>> \o RowSeq(rows \ {r})

\* CTE route_headways: the arrivals of the last 30 minutes at a known stop, each
\* with the headway to the previous arrival of its (stop, route); the first row
\* of a partition has a NULL headway and is left out here, as current_stats
\* drops it.
route_headways(arrivals, clock) ==
    LET recent == {va \in arrivals : /\ va.naptan_id \in TxcStopIds
                                     /\ va.timestamp >= clock - OverallWindow}
        part(va) == {x \in recent : /\ x.naptan_id = va.naptan_id
                                    /\ x.route_name = va.route_name}
    IN  UNION {{[stop_id |-> va.naptan_id, route_name |-> va.route_name,
                 timestamp |-> va.timestamp,
                 headway_minutes |-> MinutesBetween(va.timestamp, prev)] :
                    prev \in LagTimestamp(part(va), va)} : va \in recent}

\* CTE route_headways_hourly: the same over 7 days, partitioned by the hour too.
route_headways_hourly(arrivals, clock) ==
    LET recent == {va \in arrivals : /\ va.naptan_id \in TxcStopIds
                                     /\ va.timestamp >= clock - HourlyWindow}
        part(va) == {x \in recent : /\ x.naptan_id = va.naptan_id
                                    /\ x.route_name = va.route_name
                                    /\ HourOf(x.timestamp) = HourOf(va.timestamp)}
    IN  UNION {{[stop_id |-> va.naptan_id, route_name |-> va.route_name,
                 hour_of_day |-> HourOf(va.timestamp),
                 timestamp |-> va.timestamp,
                 headway_minutes |-> MinutesBetween(va.timestamp, prev)] :
                    prev \in LagTimestamp(part(va), va)} : va \in recent}

\* headway_minutes > 1 AND headway_minutes < 60
InSanityBand(headway_minutes) ==
    /\ RatLess(Rat(1, 1), headway_minutes)
    /\ RatLess(headway_minutes, Rat(60, 1))

\* HAVING COUNT(*) >= 2
MinValidHeadways == 2

\* The median, the average and the number of the headways of one group.
HeadwayStats(group) ==
    [median_headway_minutes |-> percentile_cont_50(OrderByHeadway(group)),
     avg_headway_minutes    |-> RatAvg(OrderByHeadway(group)),
     observation_count      |-> Cardinality(group)]

\* CTE current_stats, as the rows the INSERT proposes.
current_stats(arrivals, clock) ==
    LET valid == {r \in route_headways(arrivals, clock) : InSanityBand(r.headway_minutes)}
        group(k) == {r \in valid : r.route_name = k[1] /\ r.stop_id = k[2]}
        keys == {<<r.route_name, r.stop_id>> : r \in valid}
    IN  {[route_id |-> k[1], stop_id |-> k[2]] @@ HeadwayStats(group(k)) :
            k \in {x \in keys : Cardinality(group(x)) >= MinValidHeadways}}

\* CTE hourly_stats, as the rows the INSERT proposes.
hourly_stats(arrivals, clock) ==
    LET valid == {r \in route_headways_hourly(arrivals, clock) :
                     InSanityBand(r.headway_minutes)}
        group(k) == {r \in valid : /\ r.route_name = k[1]
                                   /\ r.stop_id = k[2]
                                   /\ r.hour_of_day = k[3]}
        keys == {<<r.route_name, r.stop_id, r.hour_of_day>> : r \in valid}
    IN  {[route_id |-> k[1], stop_id |-> k[2], hour_of_day |-> k[3]]
            @@ HeadwayStats(group(k)) :
            k \in {x \in keys : Cardinality(group(x)) >= MinValidHeadways}}

\* stored * 0.7 + EXCLUDED * 0.3 (mutation: the weights swapped)
Blend_mut(stored, excluded) == RatAdd(RatTimes(stored, 3, 10), RatTimes(excluded, 7, 10))

\* stored * 0.7 + EXCLUDED * 0.3
Blend(stored, excluded) == RatAdd(RatTimes(stored, 7, 10), RatTimes(excluded, 3, 10))

\* ON CONFLICT ... DO UPDATE SET of both baseline tables (mutation: the count
\* replaced by the count of the batch)
BlendBaseline_mut(row, excluded) ==
    [row EXCEPT !.median_headway_minutes = Blend(@, excluded.median_headway_minutes),
                !.avg_headway_minutes = Blend(@, excluded.avg_headway_minutes),
                !.observation_count = excluded.observation_count]

\* ON CONFLICT ... DO UPDATE SET of both baseline tables.
BlendBaseline(row, excluded) ==
    [row EXCEPT !.median_headway_minutes = Blend(@, excluded.median_headway_minutes),
                !.avg_headway_minutes = Blend(@, excluded.avg_headway_minutes),
                !.observation_count = @ + excluded.observation_count,
                !.last_updated = excluded.last_updated]

\* UNIQUE (route_id, stop_id)
SameRouteStop(a, b) == a.route_id = b.route_id /\ a.stop_id = b.stop_id

\* UNIQUE (route_id, stop_id, hour_of_day)
SameRouteStopHour(a, b) == SameRouteStop(a, b) /\ a.hour_of_day = b.hour_of_day

\* INSERT ... ON CONFLICT (key) DO UPDATE of the proposed rows into a baseline table.
UpsertBaselines(table, proposed, by_hour) ==
    LET SameKey(a, b) == IF by_hour THEN SameRouteStopHour(a, b) ELSE SameRouteStop(a, b)
    IN
    {IF \E b \in proposed : SameKey(row, b)
     THEN BlendBaseline(row, CHOOSE b \in proposed : SameKey(row, b))
     ELSE row : row \in table}
    \cup {b \in proposed : ~\E row \in table : SameKey(row, b)}

(***************************************************************************)
(* Bunching classification (scripts/calculate_bunching_from_arrivals.py).  *)
(***************************************************************************)
\* CTE route_stop_arrivals with WHERE headway_minutes IS NOT NULL applied.
route_stop_arrivals(arrivals) ==
    LET part(va) == {x \in arrivals : /\ x.route_name = va.route_name
                                      /\ x.naptan_id = va.naptan_id}
    IN  UNION {{[route_name |-> va.route_name, naptan_id |-> va.naptan_id,
                 timestamp |-> va.timestamp,
                 hour_of_day |-> HourOf(va.timestamp),
                 headway_minutes |-> MinutesBetween(va.timestamp, prev)] :
                    prev \in LagTimestamp(part(va), va)} : va \in arrivals}

\* The rows of the subquery on route_headway_baselines_hourly for arrival row r.
\* Its unqualified hour_of_day resolves to the column of rhb, the innermost
\* relation that has one, and not to the hour of r.
HourlyBaselineRows(hourly, r) ==
    {rhb \in hourly : /\ rhb.route_id = r.route_name
                      /\ rhb.stop_id = r.naptan_id
                      /\ rhb.hour_of_day = rhb.hour_of_day}

\* The rows of the subquery on route_headway_baselines for arrival row r.
OverallBaselineRows(overall, r) ==
    {rhb \in overall : rhb.route_id = r.route_name /\ rhb.stop_id = r.naptan_id}

\* LIMIT 1 without ORDER BY: the possible results, each a set of at most one row.
Limit1(rows) == IF rows = {} THEN {{}} ELSE {{x} : x \in rows}

\* The median of the one row of a LIMIT 1 result.
MedianOf(result) == (CHOOSE x \in result : TRUE).median_headway_minutes

\* COALESCE(hourly median, overall median, 10.0)
ExpectedHeadway(hourly_row, overall_row) ==
    IF hourly_row # {} THEN MedianOf(hourly_row)
    ELSE IF overall_row # {} THEN MedianOf(overall_row)
    ELSE Rat(10, 1)

\* COALESCE(hourly median * 0.5, overall median * 0.5, 5.0)
HalfHeadway(hourly_row, overall_row) ==
    IF hourly_row # {} THEN RatTimes(MedianOf(hourly_row), 1, 2)
    ELSE IF overall_row # {} THEN RatTimes(MedianOf(overall_row), 1, 2)
    ELSE Rat(5, 1)

\* headway_minutes < GREATEST(half, 2.0) (mutation: <=)
IsBunched_mut(headway_minutes, half) ==
    ~RatLess(RatGreatest(half, Rat(2, 1)), headway_minutes)

\* headway_minutes < GREATEST(half, 2.0)
IsBunched(headway_minutes, half) ==
    RatLess(headway_minutes, RatGreatest(half, Rat(2, 1)))

\* CTE arrivals_with_baseline.  pick[r] is the row the planner returns for the
\* LIMIT 1 subquery on the hourly table; both occurrences of the subquery in one
\* row run the same plan on the same snapshot and return the same row.
ArrivalsWithBaseline(arrivals, hourly, overall, pick) ==
    {[route_name |-> r.route_name, naptan_id |-> r.naptan_id,
      timestamp |-> r.timestamp, hour_of_day |-> r.hour_of_day,
      headway_minutes |-> r.headway_minutes,
      expected_headway_minutes |->
          ExpectedHeadway(pick[r], OverallBaselineRows(overall, r)),
      is_bunched |->
          IF IsBunched(r.headway_minutes,
                       HalfHeadway(pick[r], OverallBaselineRows(overall, r)))
          THEN 1 ELSE 0] : r \in route_stop_arrivals(arrivals)}

\* The possible choices of the LIMIT 1 rows over a set of arrival rows.
RECURSIVE PicksFor(_, _)
PicksFor(rows, hourly) ==
    IF rows = {} THEN {<<>>}
    ELSE LET r == CHOOSE x \in rows : TRUE
         IN  {(r :> p) @@ rest : p \in Limit1(HourlyBaselineRows(hourly, r)),
                                 rest \in PicksFor(rows \ {r}, hourly)}

\* The possible choices of the LIMIT 1 rows, one per arrival row.
HourlyPicks(arrivals, hourly) == PicksFor(route_stop_arrivals(arrivals), hourly)

\* HAVING COUNT(*) >= 2
MinHeadwaysPerHour == 2

\* CTE route_stop_hour_stats joined into the rows the INSERT proposes, each with
\* last_updated = NOW().
route_stop_hour_stats(cte, t) ==
    LET group(k) == {r \in cte : /\ r.route_name = k[1]
                                 /\ r.naptan_id = k[2]
                                 /\ r.hour_of_day = k[3]}
        keys == {<<r.route_name, r.naptan_id, r.hour_of_day>> : r \in cte}
        rows(k) == RowSeq(group(k))
        measured(k) == Cardinality(group(k))
        bunched(k) == SumSeq([i \in 1..measured(k) |-> rows(k)[i].is_bunched])
    IN  {[route_id |-> k[1], stop_id |-> k[2], hour_of_day |-> k[3],
          bunching_rate_pct |-> RatRound(Rat(bunched(k) * 100, measured(k)), 10),
          avg_headway_minutes |->
              RatRound(RatAvg([i \in 1..measured(k) |-> rows(k)[i].headway_minutes]), 10),
          expected_headway_minutes |->
              RatRound(RatAvg([i \in 1..measured(k) |->
                                  rows(k)[i].expected_headway_minutes]), 10),
          total_arrivals |-> measured(k) + 1,
          bunched_arrivals |-> bunched(k),
          observation_count |-> measured(k),
          last_updated |-> t] :
            k \in {x \in keys : Cardinality(group(x)) >= MinHeadwaysPerHour}}

\* ON CONFLICT (route_id, stop_id, hour_of_day) DO UPDATE SET ...
MergeBunching(row, excluded) ==
    [row EXCEPT !.bunching_rate_pct = Blend(@, excluded.bunching_rate_pct),
                !.avg_headway_minutes = Blend(@, excluded.avg_headway_minutes),
                !.expected_headway_minutes = excluded.expected_headway_minutes,
                !.total_arrivals = @ + excluded.total_arrivals,
                !.bunched_arrivals = @ + excluded.bunched_arrivals,
                !.observation_count = @ + excluded.observation_count,
                !.last_updated = excluded.last_updated]

\* The INSERT ... ON CONFLICT of the proposed rows into bunching_by_route_stop_hour.
UpsertBunching(table, proposed) ==
    {IF \E b \in proposed : SameRouteStopHour(row, b)
     THEN MergeBunching(row, CHOOSE b \in proposed : SameRouteStopHour(row, b))
     ELSE row : row \in table}
    \cup {b \in proposed : ~\E row \in table : SameRouteStopHour(row, b)}

(***************************************************************************)
(* Retention (scripts/cleanup_old_data.py).                                *)
(***************************************************************************)
\* INTERVAL '15 minutes'
AnalyzedRetention == 15 * RoundsPerMinute

\* INTERVAL '1 hour'
ArrivalRetention == RoundsPerHour

\* DELETE FROM vehicle_positions WHERE (analyzed AND older than 15 minutes)
\*                                  OR (NOT analyzed AND older than 30 minutes)
CleanPositions(table, clock) ==
    {p \in table : ~ \/ (p.analyzed /\ p.timestamp < clock - AnalyzedRetention)
                     \/ (~p.analyzed /\ p.timestamp < clock - AnalysisWindow)}

\* DELETE FROM vehicle_arrivals WHERE timestamp < NOW() - INTERVAL '1 hour'
CleanArrivals(table, clock) ==
    SelectSeq(table, LAMBDA va : ~(va.timestamp < clock - ArrivalRetention))

(***************************************************************************)
(* Further exact arithmetic for the SRI scripts.                           *)
(***************************************************************************)
RatSub(a, b) == RatAdd(a, [n |-> -b.n, d |-> b.d])

\* a / b, for b # 0
RatDiv(a, b) ==
    IF b.n > 0 THEN Rat(a.n * b.d, a.d * b.n) ELSE Rat(-(a.n * b.d), a.d * (-b.n))

\* LEAST(a, b)
RatLeast(a, b) == IF RatLess(b, a) THEN b ELSE a

\* a / b < c / d for a, c >= 0 and b, d > 0, compared by continued fractions so
\* that no product is formed.
RECURSIVE FracLess(_, _, _, _)
FracLess(a, b, c, d) ==
    IF a \div b # c \div d THEN a \div b < c \div d
    ELSE IF c % d = 0 THEN FALSE
    ELSE IF a % b = 0 THEN TRUE
    ELSE FracLess(d, c % d, b, a % b)

\* The least c in lo..hi with p / q < ((2c + 1) / (2k))^2.
RECURSIVE SqrtSearch(_, _, _, _, _)
SqrtSearch(p, q, k, lo, hi) ==
    IF lo >= hi THEN lo
    ELSE LET mid == (lo + hi) \div 2
         IN  IF FracLess(p, q, (2 * mid + 1) * (2 * mid + 1), 4 * k * k)
             THEN SqrtSearch(p, q, k, lo, mid)
             ELSE SqrtSearch(p, q, k, mid + 1, hi)

\* ROUND(sqrt(p / q), digits) for k = 10^digits, p >= 0 and q > 0; 23169 is the
\* largest c for which (2c + 1)^2 is still a machine integer.
SqrtRound(p, q, k) == Rat(SqrtSearch(p, q, k, 0, 23169), k)

\* Python round(a, digits) for k = 10^digits: a tie goes to the even neighbour.
PyRound(a, k) ==
    LET twice == 2 * a.n * k
        low   == twice \div (2 * a.d)
    IN  IF twice % (2 * a.d) = a.d
        THEN Rat(IF low % 2 = 0 THEN low ELSE low + 1, k)
        ELSE Rat((twice + a.d) \div (2 * a.d), k)

\* PERCENTILE_CONT(num / den) WITHIN GROUP (ORDER BY ...) over the ascending
\* sequence s: linear interpolation at row 1 + (num / den) * (n - 1).
percentile_cont(s, num, den) ==
    LET n     == Len(s)
        below == (num * (n - 1)) \div den
        part  == (num * (n - 1)) % den
    IN  IF part = 0 THEN s[below + 1]
        ELSE RatAdd(s[below + 1],
                    RatTimes(RatSub(s[below + 2], s[below + 1]), part, den))

\* A duration in minutes as the whole number of polling rounds it spans.
InRounds(minutes) == minutes.n * (RoundsPerMinute \div minutes.d)

\* n * SUM(x^2) - SUM(x)^2 over the integer sequence xs.
SumOfSquaresSpread(xs) ==
    Len(xs) * SumSeq([i \in 1..Len(xs) |-> xs[i] * xs[i]]) - SumSeq(xs) * SumSeq(xs)

(***************************************************************************)
(* Calendar fields of a timestamp.  The clock origin is 08:00 on Thursday  *)
(* 2 January 2025, and the clock stays inside that month.                  *)
(***************************************************************************)
ClockYear == 2025

ClockMonth == 1

\* EXTRACT(DOW ...) of the first day: Sunday = 0, so Thursday = 4.
ClockDow == 4

\* datetime.weekday() of the first day: Monday = 0, so Thursday = 3.
ClockWeekday == 3

\* DATE(timestamp), as the number of days since the first day.
DateOf(t) == (ClockZeroHour * RoundsPerHour + t) \div (24 * RoundsPerHour)

\* EXTRACT(YEAR FROM timestamp), timestamp.year
YearOf(t) == ClockYear

\* EXTRACT(MONTH FROM timestamp), timestamp.month
MonthOf(t) == ClockMonth

\* EXTRACT(DOW FROM timestamp)
DowOf(t) == (ClockDow + DateOf(t)) % 7

\* timestamp.weekday()
WeekdayOf(t) == (ClockWeekday + DateOf(t)) % 7

\* The time of day of a timestamp, in rounds since midnight.
TimeOfDay(t) == (ClockZeroHour * RoundsPerHour + t) % (24 * RoundsPerHour)

\* A nullable numeric column holds SqlNull for NULL and SqlVal(v) for the value v.
SqlNull == {}

SqlVal(v) == {v}

ValueOf(column) == CHOOSE v \in column : TRUE

\* INTERVAL '7 days'
PatternWindow == 7 * 24 * RoundsPerHour

\* COALESCE(operator, 'Unknown')
OperatorOrUnknown(operator) == IF operator = NULL THEN "Unknown" ELSE operator

\* The columns (route_name, direction, operator, year, month, day_of_week, hour)
\* that key the pattern, score and index tables.
BucketKey(r) ==
    <<r.route_name, r.direction, r.operator, r.year, r.month, r.day_of_week, r.hour>>

\* The grade CASE expression of the SQL statements, and get_grade.
get_grade(score) ==
    IF ~RatLess(score, Rat(90, 1)) THEN "A"
    ELSE IF ~RatLess(score, Rat(80, 1)) THEN "B"
    ELSE IF ~RatLess(score, Rat(70, 1)) THEN "C"
    ELSE IF ~RatLess(score, Rat(60, 1)) THEN "D"
    ELSE "F"

(***************************************************************************)
(* Schedule adherence patterns                                             *)
(* (scripts/aggregate_schedule_adherence_patterns.py).                     *)
(*                                                                         *)
(* The rows of the realtime connection are read by column name, so the     *)
(* connection get_db_connection returns is taken to deliver rows that can  *)
(* be read that way.  The schedule database holds one pattern for a        *)
(* (route, direction, operator) and one schedule row for a (pattern, stop, *)
(* weekday, hour), so each LIMIT 1 lookup has one possible result.         *)
(***************************************************************************)
\* INTERVAL '10 minutes'
AdherenceWindow == 10 * RoundsPerMinute

\* Table txc_route_patterns of the schedule database.
txc_route_patterns ==
    {[route_name |-> "14", direction |-> "outbound",
      operator_name |-> "Arriva Merseyside", pattern_id |-> 1]}

\* operator_name LIKE '%' || operator || '%', over the names in use.
OperatorNameLike(operator_name, operator) ==
    <<operator_name, operator>> \in {<<"Arriva Merseyside", "Arriva">>,
                                     <<"Arriva Merseyside", "Arriva Merseyside">>}

\* Table stop_schedule of the schedule database, every row valid today;
\* scheduled_arrivals holds times of day in whole minutes since midnight.
stop_schedule ==
    {[pattern_id |-> 1, naptan_id |-> "S30", day_of_week |-> 3, hour |-> 8,
      scheduled_arrivals |-> <<508, 516>>],
     [pattern_id |-> 1, naptan_id |-> "S12", day_of_week |-> 3, hour |-> 8,
      scheduled_arrivals |-> <<512>>],
     [pattern_id |-> 1, naptan_id |-> "S5", day_of_week |-> 3, hour |-> 8,
      scheduled_arrivals |-> <<470>>]}

\* The arrivals the script fetches, as a set: direction known, last 10 minutes.
AdherenceArrivals(arrivals, clock) ==
    {va \in arrivals : va.direction # NULL /\ va.timestamp >= clock - AdherenceWindow}

\* get_scheduled_times_batch for one arrival: the list of scheduled times, or
\* the empty list when the pattern or the schedule row is missing.
ScheduledTimes(va) ==
    LET patterns == {p \in txc_route_patterns :
                        /\ p.route_name = va.route_name
                        /\ p.direction = va.direction
                        /\ va.operator # NULL
                        /\ OperatorNameLike(p.operator_name, va.operator)}
        pattern_id == (CHOOSE p \in patterns : TRUE).pattern_id
        schedules == {s \in stop_schedule :
                         /\ s.pattern_id = pattern_id
                         /\ s.naptan_id = va.naptan_id
                         /\ s.day_of_week = WeekdayOf(va.timestamp)
                         /\ s.hour = HourOf(va.timestamp)}
    IN  IF patterns = {} \/ pattern_id = 0 \/ schedules = {} THEN <<>>
        ELSE (CHOOSE s \in schedules : TRUE).scheduled_arrivals

\* find_closest_scheduled_time: the deviation actual - scheduled, in rounds, of
\* the first scheduled time at the least distance (abs(diff) < abs(min_diff)).
RECURSIVE ClosestDeviation(_, _, _)
ClosestDeviation(actual, scheduled_times, min_diff) ==
    IF scheduled_times = <<>> THEN min_diff
    ELSE LET diff == actual - Head(scheduled_times) * RoundsPerMinute
         IN  ClosestDeviation(actual, Tail(scheduled_times),
                              IF min_diff = <<>> \/ Abs(diff) < Abs(min_diff[1])
                              THEN <<diff>> ELSE min_diff)

find_closest_scheduled_time(actual, scheduled_times) ==
    ClosestDeviation(actual, scheduled_times, <<>>)[1]

AdherenceStatus_mut(diff) ==
    IF -1 * RoundsPerMinute <= diff /\ diff < 5 * RoundsPerMinute THEN "on_time"
    ELSE IF diff < -1 * RoundsPerMinute THEN "early"
    ELSE "late"

\* The status of a deviation, given in rounds: on time from -1 to +5 minutes.
AdherenceStatus(diff) ==
    IF -1 * RoundsPerMinute <= diff /\ diff <= 5 * RoundsPerMinute THEN "on_time"
    ELSE IF diff < -1 * RoundsPerMinute THEN "early"
    ELSE "late"

\* adherence_data: one entry per fetched arrival that has schedule data.
adherence_data(arrivals, clock) ==
    {[route |-> va.route_name, direction |-> va.direction, operator |-> va.operator,
      naptan_id |-> va.naptan_id, year |-> YearOf(va.timestamp),
      month |-> MonthOf(va.timestamp), dow |-> WeekdayOf(va.timestamp),
      hour |-> HourOf(va.timestamp), vehicle_id |-> va.vehicle_id,
      timestamp |-> va.timestamp,
      deviation |-> find_closest_scheduled_time(TimeOfDay(va.timestamp),
                                                ScheduledTimes(va)),
      status |-> AdherenceStatus(
                     find_closest_scheduled_time(TimeOfDay(va.timestamp),
                                                 ScheduledTimes(va)))] :
        va \in {x \in AdherenceArrivals(arrivals, clock) : ScheduledTimes(x) # <<>>}}

\* The key of aggregates.
AdherenceKey(d) ==
    <<d.route, d.direction, d.operator, d.naptan_id, d.year, d.month, d.dow, d.hour>>

\* An ascending enumeration of a set of integers that may hold repeats, given
\* as the deviations of a set of entries.
RECURSIVE SortedDeviations(_)
SortedDeviations(entries) ==
    IF entries = {} THEN <<>>
    ELSE LET first == CHOOSE e \in entries : \A q \in entries : e.deviation <= q.deviation
         IN  <<first.deviation>> \o SortedDeviations(entries \ {first})

\* The row the script inserts for one key of aggregates.
AdherencePattern(key, entries) ==
    LET deviations == SortedDeviations(entries)
        total      == Len(deviations)
        count(status) == Cardinality({e \in entries : e.status = status})
    IN  [route_name |-> key[1], direction |-> key[2], operator |-> key[3],
         stop_id |-> key[4], year |-> key[5], month |-> key[6],
         day_of_week |-> key[7], hour |-> key[8],
         avg_deviation_minutes |->
             PyRound(Rat(SumSeq(deviations), total * RoundsPerMinute), 100),
         std_deviation_minutes |->
             SqrtRound(SumOfSquaresSpread(deviations),
                       total * total * RoundsPerMinute * RoundsPerMinute, 100),
         median_deviation_minutes |->
             PyRound(Rat(deviations[total \div 2 + 1], RoundsPerMinute), 100),
         on_time_count |-> count("on_time"),
         early_count |-> count("early"),
         late_count |-> count("late"),
         on_time_percentage |-> PyRound(Rat(count("on_time") * 100, total), 100),
         observation_count |-> total]

\* The rows of one run, one per key.
AdherencePatterns(arrivals, clock) ==
    LET data == adherence_data(arrivals, clock)
    IN  {AdherencePattern(k, {d \in data : AdherenceKey(d) = k}) :
            k \in {AdherenceKey(d) : d \in data}}

\* UNIQUE (route_name, direction, operator, stop_id, year, month, day_of_week, hour)
AdherenceRowKey(r) ==
    <<r.route_name, r.direction, r.operator, r.stop_id, r.year, r.month,
      r.day_of_week, r.hour>>

\* ON CONFLICT ... DO UPDATE SET of schedule_adherence_patterns.
MergeAdherence(row, excluded) ==
    [row EXCEPT !.avg_deviation_minutes = excluded.avg_deviation_minutes,
                !.std_deviation_minutes = excluded.std_deviation_minutes,
                !.median_deviation_minutes = excluded.median_deviation_minutes,
                !.on_time_count = @ + excluded.on_time_count,
                !.early_count = @ + excluded.early_count,
                !.late_count = @ + excluded.late_count,
                !.on_time_percentage =
                    RatRound(Rat((row.on_time_count + excluded.on_time_count) * 100,
                                 row.observation_count + excluded.observation_count),
                             100),
                !.observation_count = @ + excluded.observation_count,
                !.last_updated = excluded.last_updated]

UpsertAdherence(table, proposed) ==
    {IF \E b \in proposed : AdherenceRowKey(row) = AdherenceRowKey(b)
     THEN MergeAdherence(row, CHOOSE b \in proposed :
                                  AdherenceRowKey(row) = AdherenceRowKey(b))
     ELSE row : row \in table}
    \cup {b \in proposed : \A row \in table : AdherenceRowKey(row) # AdherenceRowKey(b)}

(***************************************************************************)
(* Journey time patterns (scripts/aggregate_journey_time_patterns.py).     *)
(***************************************************************************)
\* LEAD(...) OVER (PARTITION BY ... ORDER BY timestamp) for row a of the
\* partition part: the set holding the next row, empty for the last row.  A
\* vehicle has no two arrivals with one timestamp.
LeadRow(part, a) ==
    LET later == {b \in part : b.timestamp > a.timestamp}
    IN  {b \in later : \A c \in later : b.timestamp <= c.timestamp}

\* journey_minutes BETWEEN 0.5 AND 60
InJourneyBand(journey_minutes) ==
    /\ ~RatLess(journey_minutes, Rat(1, 2))
    /\ ~RatLess(Rat(60, 1), journey_minutes)

\* CTEs ordered_arrivals and journey_times: one row per arrival of the last 7
\* days that has a later arrival of its vehicle, route, direction and day.
journey_times(arrivals, clock) ==
    LET recent == {va \in arrivals : /\ va.direction # NULL
                                     /\ va.timestamp >= clock - PatternWindow}
        part(va) == {x \in recent : /\ x.vehicle_id = va.vehicle_id
                                    /\ x.route_name = va.route_name
                                    /\ x.direction = va.direction
                                    /\ DateOf(x.timestamp) = DateOf(va.timestamp)}
        rows == UNION {{[route_name |-> va.route_name, direction |-> va.direction,
                         operator |-> OperatorOrUnknown(va.operator),
                         origin_stop_id |-> va.naptan_id,
                         destination_stop_id |-> next.naptan_id,
                         year |-> YearOf(va.timestamp), month |-> MonthOf(va.timestamp),
                         day_of_week |-> DowOf(va.timestamp),
                         hour |-> HourOf(va.timestamp),
                         vehicle_id |-> va.vehicle_id, timestamp |-> va.timestamp,
                         journey_minutes |-> MinutesBetween(next.timestamp, va.timestamp)] :
                            next \in LeadRow(part(va), va)} : va \in recent}
    IN  {r \in rows : InJourneyBand(r.journey_minutes)}

\* The key of journey_stats and of journey_time_patterns.
JourneyKey(r) ==
    <<r.route_name, r.direction, r.operator, r.origin_stop_id, r.destination_stop_id,
      r.year, r.month, r.day_of_week, r.hour>>

\* HAVING COUNT(*) >= 3
MinJourneys == 3

\* The journey_minutes values of a set of rows, ascending.
RECURSIVE OrderByJourney(_)
OrderByJourney(rows) ==
    IF rows = {} THEN <<>>
    ELSE LET first == CHOOSE r \in rows :
                          \A q \in rows : ~RatLess(q.journey_minutes, r.journey_minutes)
         IN  <<first.journey_minutes>> \o OrderByJourney(rows \ {first})

\* One row of journey_stats as the INSERT proposes it, for a group of at least
\* two rows.  STDDEV is the sample deviation sqrt(spread / (n * (n - 1))) and
\* cv is STDDEV / AVG, NULL unless AVG > 0.
JourneyPattern(key, group) ==
    LET minutes == OrderByJourney(group)
        n       == Len(minutes)
        rounds  == [i \in 1..n |-> InRounds(minutes[i])]
        spread  == SumOfSquaresSpread(rounds)
    IN  [route_name |-> key[1], direction |-> key[2], operator |-> key[3],
         origin_stop_id |-> key[4], destination_stop_id |-> key[5],
         year |-> key[6], month |-> key[7], day_of_week |-> key[8], hour |-> key[9],
         avg_journey_minutes |-> RatRound(RatAvg(minutes), 100),
         std_journey_minutes |->
             SqrtRound(spread, n * (n - 1) * RoundsPerMinute * RoundsPerMinute, 100),
         median_journey_minutes |-> RatRound(percentile_cont(minutes, 1, 2), 100),
         coefficient_of_variation |->
             IF SumSeq(rounds) > 0
             THEN SqlVal(SqrtRound(n * spread, (n - 1) * SumSeq(rounds) * SumSeq(rounds),
                                   10000))
             ELSE SqlNull,
         percentile_85_minutes |-> RatRound(percentile_cont(minutes, 17, 20), 100),
         observation_count |-> n]

\* CTE journey_stats, as the rows the INSERT proposes.
journey_stats(arrivals, clock) ==
    LET rows == journey_times(arrivals, clock)
        group(k) == {r \in rows : JourneyKey(r) = k}
    IN  {JourneyPattern(k, group(k)) :
            k \in {x \in {JourneyKey(r) : r \in rows} :
                      Cardinality(group(x)) >= MinJourneys}}

\* ON CONFLICT ... DO UPDATE SET of journey_time_patterns.
MergeJourney(row, excluded) ==
    [excluded EXCEPT !.observation_count = row.observation_count + @]

UpsertJourney(table, proposed) ==
    {IF \E b \in proposed : JourneyKey(row) = JourneyKey(b)
     THEN MergeJourney(row, CHOOSE b \in proposed : JourneyKey(row) = JourneyKey(b))
     ELSE row : row \in table}
    \cup {b \in proposed : \A row \in table : JourneyKey(row) # JourneyKey(b)}

(***************************************************************************)
(* Service delivery patterns                                               *)
(* (scripts/aggregate_service_delivery_patterns.py).                       *)
(***************************************************************************)
\* CTE trip_patterns: one row per (route, direction, operator, day, hour) of the
\* arrivals of the last 7 days with a direction and an operator.
trip_patterns(arrivals, clock) ==
    LET recent == {va \in arrivals : /\ va.direction # NULL
                                     /\ va.operator # NULL
                                     /\ va.timestamp >= clock - PatternWindow}
        groupKey(va) == <<va.route_name, va.direction, OperatorOrUnknown(va.operator),
                          DateOf(va.timestamp), HourOf(va.timestamp)>>
        group(k) == {va \in recent : groupKey(va) = k}
        latest(k) == SetMax({va.timestamp : va \in group(k)})
    IN  {[route_name |-> k[1], direction |-> k[2], operator |-> k[3], date |-> k[4],
          year |-> YearOf(latest(k)), month |-> MonthOf(latest(k)),
          day_of_week |-> DowOf(latest(k)), hour |-> HourOf(latest(k)),
          observed_trips |->
              Cardinality({<<va.vehicle_id, DateOf(va.timestamp)>> : va \in group(k)})] :
            k \in {groupKey(va) : va \in recent}}

\* CTE aggregated_patterns, as the rows the INSERT proposes.
aggregated_patterns(arrivals, clock) ==
    LET trips == trip_patterns(arrivals, clock)
        rows(k) == RowSeq({t \in trips : BucketKey(t) = k})
        total(k) == SumSeq([i \in 1..Len(rows(k)) |-> rows(k)[i].observed_trips])
    IN  {[route_name |-> k[1], direction |-> k[2], operator |-> k[3],
          year |-> k[4], month |-> k[5], day_of_week |-> k[6], hour |-> k[7],
          scheduled_trips |-> total(k), completed_trips |-> total(k),
          cancelled_trips |-> 0, partial_trips |-> 0,
          service_delivery_rate |-> SqlVal(Rat(100, 1))] :
            k \in {BucketKey(t) : t \in trips}}

\* ON CONFLICT ... DO UPDATE SET of service_delivery_patterns: the rate is
\* computed from the stored counts, NULL when the stored scheduled_trips is 0.
MergeDelivery(row, excluded) ==
    [row EXCEPT !.scheduled_trips = @ + excluded.scheduled_trips,
                !.completed_trips = @ + excluded.completed_trips,
                !.service_delivery_rate =
                    IF row.scheduled_trips = 0 THEN SqlNull
                    ELSE SqlVal(Rat(100 * row.completed_trips, row.scheduled_trips))]

UpsertDelivery(table, proposed) ==
    {IF \E b \in proposed : BucketKey(row) = BucketKey(b)
     THEN MergeDelivery(row, CHOOSE b \in proposed : BucketKey(row) = BucketKey(b))
     ELSE row : row \in table}
    \cup {b \in proposed : \A row \in table : BucketKey(row) # BucketKey(b)}

(***************************************************************************)
(* Component scores (scripts/calculate_component_scores.py).               *)
(***************************************************************************)
\* SELECT * FROM sri_config WHERE is_active = true ORDER BY effective_date DESC
\* LIMIT 1: the rows the query can return.
ActiveConfigs(configs) ==
    {c \in configs : /\ c.is_active
                     /\ \A other \in configs :
                           other.is_active => other.effective_date <= c.effective_date}

ClampScore_mut(x) == RatRound(x, 100)

\* GREATEST(0, LEAST(100, x))::DECIMAL(5,2)
ClampScore(x) == RatRound(RatGreatest(Rat(0, 1), RatLeast(Rat(100, 1), x)), 100)

\* 100 - ((raw - excellent) / (poor - excellent)) * 100, clamped
LowerIsBetterScore(raw, excellent, poor) ==
    ClampScore(RatSub(Rat(100, 1),
                      RatTimes(RatDiv(RatSub(raw, excellent), RatSub(poor, excellent)),
                               100, 1)))

HigherIsBetterScore_mut(raw, excellent, poor) ==
    ClampScore(RatTimes(RatDiv(RatSub(raw, excellent), RatSub(poor, excellent)), 100, 1))

\* ((raw - poor) / (excellent - poor)) * 100, clamped
HigherIsBetterScore(raw, excellent, poor) ==
    ClampScore(RatTimes(RatDiv(RatSub(raw, poor), RatSub(excellent, poor)), 100, 1))

\* The values of one nullable column over a sequence of rows, NULLs dropped.
RECURSIVE NonNull(_)
NonNull(columns) ==
    IF columns = <<>> THEN <<>>
    ELSE (IF Head(columns) = SqlNull THEN <<>> ELSE <<ValueOf(Head(columns))>>)
         \o NonNull(Tail(columns))

\* MAX over a sequence of rationals
RECURSIVE RatMax(_)
RatMax(s) == IF Len(s) = 1 THEN s[1] ELSE RatGreatest(Head(s), RatMax(Tail(s)))

\* The rows the first statement proposes: headway_patterns with a cv, one row
\* per bucket.
HeadwayScores(patterns, config) ==
    LET usable == {p \in patterns : p.coefficient_of_variation # SqlNull}
        rows(k) == RowSeq({p \in usable : BucketKey(p) = k})
        cv(k) == RatMax([i \in 1..Len(rows(k)) |->
                            ValueOf(rows(k)[i].coefficient_of_variation)])
    IN  {[route_name |-> k[1], direction |-> k[2], operator |-> k[3],
          year |-> k[4], month |-> k[5], day_of_week |-> k[6], hour |-> k[7],
          coefficient_of_variation |-> cv(k),
          bunching_rate |->
              RatMax([i \in 1..Len(rows(k)) |-> rows(k)[i].bunching_rate]),
          avg_headway_deviation |->
              RatMax([i \in 1..Len(rows(k)) |-> rows(k)[i].std_headway_minutes]),
          score |-> LowerIsBetterScore(cv(k), config.headway_cv_excellent,
                                       config.headway_cv_poor),
          grade |-> "C",
          observation_count |->
              SumSeq([i \in 1..Len(rows(k)) |-> rows(k)[i].observation_count])] :
            k \in {BucketKey(p) : p \in usable}}

\* CTE route_journey_cv joined into the rows the third statement proposes.
JourneyScores(patterns, config) ==
    LET usable == {p \in patterns : p.coefficient_of_variation # SqlNull}
        rows(k) == RowSeq({p \in usable : BucketKey(p) = k})
        count(k) == Len(rows(k))
        avg_cv(k) == RatAvg([i \in 1..count(k) |->
                                ValueOf(rows(k)[i].coefficient_of_variation)])
        ratios(k) == NonNull([i \in 1..count(k) |->
                                 IF rows(k)[i].median_journey_minutes.n = 0 THEN SqlNull
                                 ELSE SqlVal(RatDiv(rows(k)[i].percentile_85_minutes,
                                                    rows(k)[i].median_journey_minutes))])
    IN  {[route_name |-> k[1], direction |-> k[2], operator |-> k[3],
          year |-> k[4], month |-> k[5], day_of_week |-> k[6], hour |-> k[7],
          coefficient_of_variation |-> avg_cv(k),
          percentile_85_ratio |->
              IF ratios(k) = <<>> THEN SqlNull ELSE SqlVal(RatAvg(ratios(k))),
          avg_journey_minutes |->
              RatAvg([i \in 1..count(k) |-> rows(k)[i].avg_journey_minutes]),
          score |-> LowerIsBetterScore(avg_cv(k), config.journey_cv_excellent,
                                       config.journey_cv_poor),
          grade |-> "C",
          observation_count |->
              SumSeq([i \in 1..count(k) |-> rows(k)[i].observation_count])] :
            k \in {BucketKey(p) : p \in usable}}

\* The rows the fourth statement proposes: service_delivery_patterns with a
\* rate, one row per bucket.
DeliveryScores(patterns, config) ==
    LET usable == {p \in patterns : p.service_delivery_rate # SqlNull}
        rows(k) == RowSeq({p \in usable : BucketKey(p) = k})
        count(k) == Len(rows(k))
        rate(k) == RatMax([i \in 1..count(k) |-> ValueOf(rows(k)[i].service_delivery_rate)])
        cancelled(k) == SumSeq([i \in 1..count(k) |-> rows(k)[i].cancelled_trips])
        completed(k) == SumSeq([i \in 1..count(k) |-> rows(k)[i].completed_trips])
        scheduled(k) == SumSeq([i \in 1..count(k) |-> rows(k)[i].scheduled_trips])
    IN  {[route_name |-> k[1], direction |-> k[2], operator |-> k[3],
          year |-> k[4], month |-> k[5], day_of_week |-> k[6], hour |-> k[7],
          service_delivery_rate |-> rate(k),
          cancelled_trip_rate |->
              IF scheduled(k) = 0 THEN SqlNull
              ELSE SqlVal(RatRound(Rat(cancelled(k) * 100, scheduled(k)), 100)),
          completed_trips |-> completed(k),
          scheduled_trips |-> scheduled(k),
          score |-> HigherIsBetterScore(rate(k), config.service_delivery_excellent,
                                        config.service_delivery_poor),
          grade |-> "C",
          observation_count |-> scheduled(k)] :
            k \in {BucketKey(p) : p \in usable}}

\* A score statement divides by (poor - excellent) for every row it selects:
\* with equal anchors and at least one row, PostgreSQL raises division by zero.
HeadwayRaises(patterns, config) ==
    /\ config.headway_cv_excellent = config.headway_cv_poor
    /\ \E p \in patterns : p.coefficient_of_variation # SqlNull

JourneyRaises(patterns, config) ==
    /\ config.journey_cv_excellent = config.journey_cv_poor
    /\ \E p \in patterns : p.coefficient_of_variation # SqlNull

DeliveryRaises(patterns, config) ==
    /\ config.service_delivery_excellent = config.service_delivery_poor
    /\ \E p \in patterns : p.service_delivery_rate # SqlNull

\* INSERT ... ON CONFLICT (bucket) DO UPDATE SET every other column = EXCLUDED.
UpsertScores(table, proposed) ==
    {row \in table : \A b \in proposed : BucketKey(row) # BucketKey(b)} \cup proposed

UpdateGrades_mut(table) == table

\* UPDATE ... SET grade = CASE ... END, over every row of the table.
UpdateGrades(table) == {[row EXCEPT !.grade = get_grade(row.score)] : row \in table}

(***************************************************************************)
(* The SRI indexes (scripts/calculate_sri_scores.py and                    *)
(* scripts/create_monthly_daily_aggregates.py).                            *)
(*                                                                         *)
(* Both index tables are kept in insertion order, since one bucket can     *)
(* have several rows.  Their day_of_week and hour columns are nullable.    *)
(* The unique constraint behind ON CONFLICT is the plain one of            *)
(* migrate_sri_tables.py, under which a NULL is distinct from every value, *)
(* another NULL included.                                                  *)
(***************************************************************************)
\* COALESCE(count, 0) and COALESCE(score, 50.0) over the rows of one score
\* table that join the bucket k: none or one.
JoinedCount(table, k) ==
    IF \E r \in table : BucketKey(r) = k
    THEN (CHOOSE r \in table : BucketKey(r) = k).observation_count ELSE 0

\* The score a missing component is given.
NeutralScore == 50

JoinedScore(table, k) ==
    IF \E r \in table : BucketKey(r) = k
    THEN (CHOOSE r \in table : BucketKey(r) = k).score ELSE Rat(NeutralScore, 1)

\* CASE WHEN score IS NOT NULL THEN 1 ELSE 0 END
HasScore(table, k) == IF \E r \in table : BucketKey(r) = k THEN 1 ELSE 0

\* WHERE total_observations >= 10
MinSriObservations == 10

WeightedSum_mut(h, s, j, d, config) ==
    RatAdd(RatAdd(RatTimes(h, config.headway_weight.n, config.headway_weight.d),
                  RatTimes(s, config.headway_weight.n, config.headway_weight.d)),
           RatAdd(RatTimes(j, config.journey_time_weight.n, config.journey_time_weight.d),
                  RatTimes(d, config.service_delivery_weight.n,
                           config.service_delivery_weight.d)))

\* headway_score * w1 + schedule_score * w2 + journey_score * w3 + service_score * w4
WeightedSum(h, s, j, d, config) ==
    RatAdd(RatAdd(RatTimes(h, config.headway_weight.n, config.headway_weight.d),
                  RatTimes(s, config.schedule_weight.n, config.schedule_weight.d)),
           RatAdd(RatTimes(j, config.journey_time_weight.n, config.journey_time_weight.d),
                  RatTimes(d, config.service_delivery_weight.n,
                           config.service_delivery_weight.d)))

\* CTE component_scores with the WHERE of the INSERT applied, as the rows the
\* INSERT proposes: the full outer join of the four score tables on the bucket.
component_scores(hc, sa, jt, sd, config) ==
    LET keys == {BucketKey(r) : r \in hc \cup sa \cup jt \cup sd}
        total(k) == JoinedCount(hc, k) + JoinedCount(sa, k)
                        + JoinedCount(jt, k) + JoinedCount(sd, k)
        sum(k) == WeightedSum(JoinedScore(hc, k), JoinedScore(sa, k),
                              JoinedScore(jt, k), JoinedScore(sd, k), config)
    IN  {[route_name |-> k[1], direction |-> k[2], operator |-> k[3],
          year |-> k[4], month |-> k[5],
          day_of_week |-> SqlVal(k[6]), hour |-> SqlVal(k[7]),
          headway_consistency_score |-> JoinedScore(hc, k),
          schedule_adherence_score |-> JoinedScore(sa, k),
          journey_time_consistency_score |-> JoinedScore(jt, k),
          service_delivery_score |-> JoinedScore(sd, k),
          headway_weight |-> config.headway_weight,
          schedule_weight |-> config.schedule_weight,
          journey_time_weight |-> config.journey_time_weight,
          service_delivery_weight |-> config.service_delivery_weight,
          sri_score |-> RatRound(sum(k), 100),
          sri_grade |-> get_grade(sum(k)),
          observation_count |-> total(k),
          data_completeness |->
              Rat((HasScore(hc, k) + HasScore(sa, k) + HasScore(jt, k)
                       + HasScore(sd, k)) * 25, 1)] :
            k \in {x \in keys : total(x) >= MinSriObservations}}

\* Whether a new row with key new conflicts with a stored row with key stored
\* under a unique constraint on the key columns.
KeyConflict(stored, new) ==
    /\ stored = new
    /\ \A i \in 1..Len(new) : new[i] # SqlNull

\* The key columns of service_reliability_index.
SriKey(r) ==
    <<SqlVal(r.route_name), SqlVal(r.direction), SqlVal(r.operator), SqlVal(r.year),
      SqlVal(r.month), r.day_of_week, r.hour>>

\* ON CONFLICT ... DO UPDATE SET of the statements on service_reliability_index;
\* only calculate_sri_scores sets data_completeness.
MergeSri(row, excluded, with_completeness) ==
    [row EXCEPT !.headway_consistency_score = excluded.headway_consistency_score,
                !.schedule_adherence_score = excluded.schedule_adherence_score,
                !.journey_time_consistency_score =
                    excluded.journey_time_consistency_score,
                !.service_delivery_score = excluded.service_delivery_score,
                !.sri_score = excluded.sri_score,
                !.sri_grade = excluded.sri_grade,
                !.observation_count = excluded.observation_count,
                !.data_completeness =
                    IF with_completeness THEN excluded.data_completeness ELSE @]

\* INSERT ... ON CONFLICT of the proposed rows, one after the other, into
\* service_reliability_index.
RECURSIVE UpsertSri(_, _, _)
UpsertSri(table, proposed, with_completeness) ==
    IF proposed = <<>> THEN table
    ELSE LET b == Head(proposed)
             after ==
                 IF \E i \in 1..Len(table) : KeyConflict(SriKey(table[i]), SriKey(b))
                 THEN [i \in 1..Len(table) |->
                          IF KeyConflict(SriKey(table[i]), SriKey(b))
                          THEN MergeSri(table[i], b, with_completeness)
                          ELSE table[i]]
                 ELSE Append(table, b)
         IN  UpsertSri(after, Tail(proposed), with_completeness)

\* The rows of a sequence of index rows whose grade is g.
GradeCount(rows, g) == Len(SelectSeq(rows, LAMBDA r : r.sri_grade = g))

\* One aggregated row of service_reliability_index over the rows of a group.
CoarseRow(rows, day_of_week, hour) ==
    LET n == Len(rows)
        avg_sri == RatAvg([i \in 1..n |-> rows[i].sri_score])
    IN  [route_name |-> rows[1].route_name, direction |-> rows[1].direction,
         operator |-> rows[1].operator, year |-> rows[1].year, month |-> rows[1].month,
         day_of_week |-> day_of_week, hour |-> hour,
         headway_consistency_score |->
             RatRound(RatAvg([i \in 1..n |-> rows[i].headway_consistency_score]), 100),
         schedule_adherence_score |->
             RatRound(RatAvg([i \in 1..n |-> rows[i].schedule_adherence_score]), 100),
         journey_time_consistency_score |->
             RatRound(RatAvg([i \in 1..n |-> rows[i].journey_time_consistency_score]),
                      100),
         service_delivery_score |->
             RatRound(RatAvg([i \in 1..n |-> rows[i].service_delivery_score]), 100),
         headway_weight |-> RatAvg([i \in 1..n |-> rows[i].headway_weight]),
         schedule_weight |-> RatAvg([i \in 1..n |-> rows[i].schedule_weight]),
         journey_time_weight |-> RatAvg([i \in 1..n |-> rows[i].journey_time_weight]),
         service_delivery_weight |->
             RatAvg([i \in 1..n |-> rows[i].service_delivery_weight]),
         sri_score |-> RatRound(avg_sri, 100),
         sri_grade |-> get_grade(avg_sri),
         observation_count |-> SumSeq([i \in 1..n |-> rows[i].observation_count]),
         data_completeness |-> RatAvg([i \in 1..n |-> rows[i].data_completeness])]

\* The rows the daily INSERT proposes from the hourly rows (daily = TRUE), and
\* the rows the monthly INSERT proposes from the daily rows (daily = FALSE).
CoarseRows(table, daily) ==
    LET source == SelectSeq(table, LAMBDA r :
                      /\ r.day_of_week # SqlNull
                      /\ IF daily THEN r.hour # SqlNull ELSE r.hour = SqlNull)
        groupKey(r) == <<r.route_name, r.direction, r.operator, r.year, r.month,
                         IF daily THEN r.day_of_week ELSE SqlNull>>
        group(k) == SelectSeq(source, LAMBDA r : groupKey(r) = k)
    IN  {CoarseRow(group(k), k[6], SqlNull) :
            k \in {groupKey(source[i]) : i \in 1..Len(source)}}

\* One aggregated row of network_reliability_index over the rows of a group;
\* only create_monthly_daily_aggregates writes observation_count.
NetworkRow(rows, day_of_week, hour, with_count) ==
    LET n == Len(rows)
        avg_sri == RatAvg([i \in 1..n |-> rows[i].sri_score])
    IN  [network_name |-> "Merseyside", year |-> rows[1].year, month |-> rows[1].month,
         day_of_week |-> day_of_week, hour |-> hour,
         network_sri_score |-> RatRound(avg_sri, 100),
         network_grade |-> get_grade(avg_sri),
         total_routes |->
             Cardinality({<<rows[i].route_name, rows[i].direction, rows[i].operator>> :
                             i \in 1..n}),
         routes_grade_a |-> GradeCount(rows, "A"),
         routes_grade_b |-> GradeCount(rows, "B"),
         routes_grade_c |-> GradeCount(rows, "C"),
         routes_grade_d |-> GradeCount(rows, "D"),
         routes_grade_f |-> GradeCount(rows, "F"),
         avg_headway_score |->
             RatRound(RatAvg([i \in 1..n |-> rows[i].headway_consistency_score]), 10),
         avg_schedule_score |->
             RatRound(RatAvg([i \in 1..n |-> rows[i].schedule_adherence_score]), 10),
         avg_journey_time_score |->
             RatRound(RatAvg([i \in 1..n |-> rows[i].journey_time_consistency_score]),
                      10),
         avg_service_delivery_score |->
             RatRound(RatAvg([i \in 1..n |-> rows[i].service_delivery_score]), 10),
         observation_count |->
             IF with_count
             THEN SqlVal(SumSeq([i \in 1..n |-> rows[i].observation_count]))
             ELSE SqlNull]

\* The rows a network INSERT proposes.  level "all" groups every row by (year,
\* month, day_of_week, hour), a NULL forming a group of its own; level
\* "monthly" takes the rows with neither a day_of_week nor an hour and groups
\* by (year, month); level "daily" takes the rows without an hour and groups by
\* (year, month, day_of_week).
NetworkRows(table, level, with_count) ==
    LET source == SelectSeq(table, LAMBDA r :
                      \/ level = "all"
                      \/ level = "monthly" /\ r.day_of_week = SqlNull /\ r.hour = SqlNull
                      \/ level = "daily" /\ r.hour = SqlNull)
        groupKey(r) == <<r.year, r.month,
                         IF level = "monthly" THEN SqlNull ELSE r.day_of_week,
                         IF level = "all" THEN r.hour ELSE SqlNull>>
        group(k) == SelectSeq(source, LAMBDA r : groupKey(r) = k)
    IN  {NetworkRow(group(k), k[3], k[4], with_count) :
            k \in {groupKey(source[i]) : i \in 1..Len(source)}}

\* The key columns of network_reliability_index.
NetworkKey(r) ==
    <<SqlVal(r.network_name), SqlVal(r.year), SqlVal(r.month), r.day_of_week, r.hour>>

\* ON CONFLICT ... DO UPDATE SET of the statements on network_reliability_index.
MergeNetwork(row, excluded, with_count) ==
    [excluded EXCEPT !.observation_count =
                         IF with_count THEN @ ELSE row.observation_count]

\* INSERT ... ON CONFLICT of the proposed rows, one after the other, into
\* network_reliability_index.
RECURSIVE UpsertNetwork(_, _, _)
UpsertNetwork(table, proposed, with_count) ==
    IF proposed = <<>> THEN table
    ELSE LET b == Head(proposed)
             after ==
                 IF \E i \in 1..Len(table) :
                        KeyConflict(NetworkKey(table[i]), NetworkKey(b))
                 THEN [i \in 1..Len(table) |->
                          IF KeyConflict(NetworkKey(table[i]), NetworkKey(b))
                          THEN MergeNetwork(table[i], b, with_count)
                          ELSE table[i]]
                 ELSE Append(table, b)
         IN  UpsertNetwork(after, Tail(proposed), with_count)

\* The three network statements of calculate_sri_scores, in order.
NetworkAfterSriScores(network, index) ==
    LET hourly  == UpsertNetwork(network, RowSeq(NetworkRows(index, "all", FALSE)), FALSE)
        monthly == UpsertNetwork(hourly, RowSeq(NetworkRows(index, "monthly", FALSE)),
                                 FALSE)
    IN  UpsertNetwork(monthly, RowSeq(NetworkRows(index, "daily", FALSE)), FALSE)

\* The rows of table sri_config: the active configuration with the default
\* weights 40/30/20/10 and anchors, and a later configuration that is not active.
DefaultConfig ==
    [version |-> 1, is_active |-> TRUE, effective_date |-> 1,
     headway_weight |-> Rat(2, 5), schedule_weight |-> Rat(3, 10),
     journey_time_weight |-> Rat(1, 5), service_delivery_weight |-> Rat(1, 10),
     headway_cv_excellent |-> Rat(1, 10), headway_cv_poor |-> Rat(4, 5),
     schedule_ontime_excellent |-> Rat(95, 1), schedule_ontime_poor |-> Rat(50, 1),
     journey_cv_excellent |-> Rat(1, 10), journey_cv_poor |-> Rat(4, 5),
     service_delivery_excellent |-> Rat(95, 1), service_delivery_poor |-> Rat(50, 1)]

DraftConfig ==
    [DefaultConfig EXCEPT !.version = 2, !.is_active = FALSE, !.effective_date = 2,
                          !.headway_weight = Rat(1, 4), !.schedule_weight = Rat(1, 4),
                          !.journey_time_weight = Rat(1, 4),
                          !.service_delivery_weight = Rat(1, 4)]

SriConfigRows == {DefaultConfig, DraftConfig}

(***************************************************************************)
(* Specification SpecMatcher: StopMatcher.match on every bounded index.    *)
(***************************************************************************)
MaxRows == 3

\* txc_stops: S5 is 5 m from the origin, S12 and S12E are both 12 m away, S30 is
\* exactly 30 m away and S40 is 40 m away.
TxcStops ==
    {[naptan_id |-> "S5",   latitude |-> 5,  longitude |-> 0],
     [naptan_id |-> "S12",  latitude |-> 12, longitude |-> 0],
     [naptan_id |-> "S12E", latitude |-> 0,  longitude |-> 20],
     [naptan_id |-> "S30",  latitude |-> 30, longitude |-> 0],
     [naptan_id |-> "S40",  latitude |-> 40, longitude |-> 0]}

TxcRouteNames == {"14", "26"}

TxcDirections == {"inbound", "outbound"}

\* The rows of the txc_stops / txc_pattern_stops / txc_route_patterns join.
TxcRowUniverse ==
    {[naptan_id |-> st.naptan_id, latitude |-> st.latitude, longitude |-> st.longitude,
      route_name |-> r, direction |-> d] :
        st \in TxcStops, r \in TxcRouteNames, d \in TxcDirections}

\* SELECT DISTINCT: no row twice.
DistinctRows(rows) == \A i, j \in 1..Len(rows) : i # j => rows[i] # rows[j]

MatchEvents ==
    {[vehicle_id |-> "V1", latitude |-> 0, longitude |-> 0, stop_timestamp |-> 1,
      dwell_time_seconds |-> 20, route_name |-> r, direction |-> d] :
        r \in {NULL, "14", "99"}, d \in {NULL, "", "outbound"}}

\* OperatorRole.TRANSPORT_AUTHORITY, the context operator_context.py selects.
TransportAuthority ==
    [operator_name |-> "Merseyside Transport Authority", role |-> "transport_authority"]

\* The two cron invocations that may overlap.
Invocations == {"cron1", "cron2"}

ExtIdle ==
    /\ bunching_by_hour = {}
    /\ bunching_by_stop = {}
    /\ dwell_time_analysis = {}
    /\ lock_holder = "none"
    /\ invocation = [i \in Invocations |-> "not started"]
    /\ postgis_result = [matched |-> FALSE]

\* No API call has been made.
ApiIdle ==
    /\ api_request = [year |-> SqlNull, month |-> SqlNull, operator |-> TransportAuthority]
    /\ api_response = [status |-> 0]

MatchIdle ==
    /\ txc_rows = <<>>
    /\ stop_event = [vehicle_id |-> "V1"]
    /\ match_result = NoMatch

DetIdle ==
    /\ positions_list = <<>>
    /\ stop_events = <<>>

PassIdle ==
    /\ now = 0
    /\ vehicle_positions = {}
    /\ vehicle_arrivals = <<>>

\* No aggregation has run: the derived tables are empty.
StatIdle ==
    /\ route_headway_baselines = {}
    /\ route_headway_baselines_hourly = {}
    /\ bunching_by_route_stop_hour = {}
    /\ arrivals_with_baseline = {}
    /\ headway_patterns = {}
    /\ schedule_adherence_patterns = {}
    /\ journey_time_patterns = {}
    /\ service_delivery_patterns = {}
    /\ headway_consistency_scores = {}
    /\ schedule_adherence_scores = {}
    /\ journey_time_consistency_scores = {}
    /\ service_delivery_scores = {}
    /\ service_reliability_index = <<>>
    /\ network_reliability_index = <<>>
    /\ sri_config = SriConfigRows

MatchInit ==
    /\ ApiIdle
    /\ ExtIdle
    /\ pc = "input"
    /\ txc_rows \in {rows \in SeqsUpTo(TxcRowUniverse, MaxRows) : DistinctRows(rows)}
    /\ stop_event \in MatchEvents
    /\ match_result = NoMatch
    /\ DetIdle
    /\ PassIdle
    /\ StatIdle

MatchStopEvent ==
    /\ pc = "input"
    /\ pc' = "match"
    /\ match_result' = StopMatcher_match(txc_rows, stop_event, MatchRadiusCm)
    /\ UNCHANGED <<txc_rows, stop_event, detVars, passVars, statVars, apiVars, extVars>>

\* match_vehicle_to_stop on the same event and the same stop tables.
MatchVehicleToStop ==
    /\ pc = "match"
    /\ pc' = "match_vehicle_to_stop"
    /\ postgis_result' \in match_vehicle_to_stop(txc_rows, stop_event)
    /\ UNCHANGED <<txc_rows, stop_event, match_result, detVars, passVars, statVars,
                   apiVars, aggVars, lockVars>>

MatchNext == MatchStopEvent \/ MatchVehicleToStop

SpecMatcher == MatchInit /\ [][MatchNext]_vars

\* Distance of the event from a fetched row's stop, squared.
EventDsq(ev, row) ==
    haversine_distance_sq(ev.latitude, ev.longitude, row.latitude, row.longitude)

\* The row serves the event's route, and its direction when the event names one.
ServesEvent(row, ev) ==
    /\ row.route_name = ev.route_name
    /\ (ev.direction # NULL => row.direction = ev.direction)

WithinRadius(ev, row) == EventDsq(ev, row) <= MatchRadiusCm * MatchRadiusCm

\* The index of the first fetched row of the given route and direction.
FirstRowOf(route_name, direction) ==
    CHOOSE i \in 1..Len(txc_rows) :
        /\ txc_rows[i].route_name = route_name /\ txc_rows[i].direction = direction
        /\ \A j \in 1..(i - 1) :
              ~(txc_rows[j].route_name = route_name /\ txc_rows[j].direction = direction)

\* Row i is enumerated before row j in the candidate list: directions in order of
\* first appearance, rows of one direction in fetch order.
EnumeratedBefore(i, j) ==
    IF txc_rows[i].direction = txc_rows[j].direction
    THEN i < j
    ELSE FirstRowOf(txc_rows[i].route_name, txc_rows[i].direction)
             < FirstRowOf(txc_rows[j].route_name, txc_rows[j].direction)

\* C2: a returned stop serves the event's route (and direction, when given), lies
\* within the 30 m radius and is the nearest such candidate, the first enumerated
\* on a tie; with no candidate within the radius, or the route not in the index,
\* the result is no-match.
C2_NearestOnRoute ==
    pc = "match" =>
        /\ match_result.matched =>
              \E i \in 1..Len(txc_rows) :
                  /\ txc_rows[i].naptan_id = match_result.naptan_id
                  /\ ServesEvent(txc_rows[i], stop_event)
                  /\ WithinRadius(stop_event, txc_rows[i])
                  /\ match_result.distance_sq = EventDsq(stop_event, txc_rows[i])
                  /\ \A j \in 1..Len(txc_rows) :
                        ServesEvent(txc_rows[j], stop_event) =>
                            /\ EventDsq(stop_event, txc_rows[i]) <= EventDsq(stop_event, txc_rows[j])
                            /\ (/\ j # i
                                /\ EventDsq(stop_event, txc_rows[j]) = EventDsq(stop_event, txc_rows[i]))
                               => EnumeratedBefore(i, j)
        /\ (~\E i \in 1..Len(txc_rows) :
                ServesEvent(txc_rows[i], stop_event) /\ WithinRadius(stop_event, txc_rows[i]))
           => ~match_result.matched
        /\ (~\E i \in 1..Len(txc_rows) : txc_rows[i].route_name = stop_event.route_name)
           => ~match_result.matched

\* C2 witness: the event on route 14 was matched to the stop at 12 m although a
\* stop of another route lies at 5 m.
C2_Witness ==
    /\ pc = "match"
    /\ match_result.matched
    /\ match_result.naptan_id \in {"S12", "S12E"}
    /\ stop_event.route_name = "14"
    /\ \E i \in 1..Len(txc_rows) :
          txc_rows[i].naptan_id = "S5" /\ txc_rows[i].route_name = "26"
    /\ \E i, j \in 1..Len(txc_rows) :
          /\ txc_rows[i].naptan_id = "S12" /\ txc_rows[j].naptan_id = "S12E"
          /\ ServesEvent(txc_rows[i], stop_event) /\ ServesEvent(txc_rows[j], stop_event)

\* The rows the contract makes candidates for the event: the rows of the
\* event's route, of every direction when the event's direction is unknown
\* (None) and of the event's direction when it is known.
CandidateSet(ev) ==
    {i \in 1..Len(txc_rows) :
        /\ txc_rows[i].route_name = ev.route_name
        /\ (ev.direction = NULL \/ txc_rows[i].direction = ev.direction)}

\* The result is drawn from the candidate set of the event: a returned stop is
\* a candidate of least distance, a candidate nearer than the radius forces a
\* match, and without a candidate within the radius there is no match.
DrawnFromCandidates(result, ev) ==
    /\ result.matched =>
          \E i \in CandidateSet(ev) :
              /\ txc_rows[i].naptan_id = result.naptan_id
              /\ \A j \in CandidateSet(ev) : EventDsq(ev, txc_rows[i]) <= EventDsq(ev, txc_rows[j])
    /\ (\E i \in CandidateSet(ev) :
            EventDsq(ev, txc_rows[i]) < MatchRadiusCm * MatchRadiusCm)
       => result.matched
    /\ (~\E i \in CandidateSet(ev) : WithinRadius(ev, txc_rows[i]))
       => ~result.matched

C22_WitnessUnknown ==
    /\ pc = "match_vehicle_to_stop"
    /\ stop_event.route_name = "14"
    /\ stop_event.direction = NULL
    /\ match_result.matched /\ postgis_result.matched
    /\ match_result.naptan_id = postgis_result.naptan_id
    /\ \A i \in 1..Len(txc_rows) :
          txc_rows[i].naptan_id = match_result.naptan_id
              => txc_rows[i].direction = "inbound"

\* C28: on every event and every stop table StopMatcher.match returns a match
\* if and only if match_vehicle_to_stop returns matched = True, and both select
\* the same stop.
C28_MatchersEquivalent ==
    pc = "match_vehicle_to_stop" =>
        /\ match_result.matched = postgis_result.matched
        /\ match_result.matched => match_result.naptan_id = postgis_result.naptan_id

(***************************************************************************)
(* Specification SpecPass: ingestion and analysis passes over the tables.  *)
(* The SELECT of a pass and its later UPDATE and COMMIT are separate       *)
(* steps, since ingestion commits between them.                            *)
(***************************************************************************)
MaxPassTime == 3

PassVehicles == {"V1"}

PassLocations == {<<0, 0>>, <<3, 0>>, <<50, 0>>}

\* The fetched route-stop rows of the pass: S12 is served by route 14 outbound,
\* S5 by route 26 outbound.
PassTxcRows ==
    <<[naptan_id |-> "S12", latitude |-> 12, longitude |-> 0,
       route_name |-> "14", direction |-> "outbound"],
      [naptan_id |-> "S5", latitude |-> 5, longitude |-> 0,
       route_name |-> "26", direction |-> "outbound"]>>

PassInit ==
    /\ ApiIdle
    /\ ExtIdle
    /\ pc = "idle"
    /\ now = 0
    /\ vehicle_positions = {}
    /\ vehicle_arrivals = <<>>
    /\ txc_rows = PassTxcRows
    /\ stop_event = [vehicle_id |-> "V1"]
    /\ match_result = NoMatch
    /\ DetIdle
    /\ StatIdle

\* The clock moves on by one polling round, or by a gap as long as the window.
AdvanceClock ==
    /\ now <= MaxPassTime
    /\ \E d \in {1, AnalysisWindow} :
          /\ (d = 1 => now < MaxPassTime)
          /\ now' = now + d
    /\ UNCHANGED <<pc, detVars, matchVars, apiVars, extVars, vehicle_positions, vehicle_arrivals, statVars>>

\* store_vehicle_positions: INSERT ... ON CONFLICT (vehicle_id, timestamp) DO NOTHING.
store_vehicle_positions ==
    /\ \E v \in PassVehicles, l \in PassLocations, t \in 1..MaxPassTime,
          d \in {NULL, "outbound"} :
          /\ t <= now
          /\ ~\E p \in vehicle_positions : p.vehicle_id = v /\ p.timestamp = t
          /\ vehicle_positions' = vehicle_positions \cup
                {[vehicle_id |-> v, route_name |-> "14", direction |-> d,
                  operator |-> "AMSY", latitude |-> l[1], longitude |-> l[2],
                  timestamp |-> t, analyzed |-> FALSE]}
    /\ UNCHANGED <<pc, detVars, matchVars, apiVars, extVars, now, vehicle_arrivals, statVars>>

\* detect_and_match_stops up to positions_list: the SELECT and the conversion of
\* the fetched rows, which raises out of the pass (rollback, raise) on a None
\* coordinate.
DetectFetch ==
    /\ pc \in {"idle", "detect_and_match_stops raised"}
    /\ LET fetched == OrderByVehicleTime(UnanalyzedRecent(vehicle_positions, now))
       IN  IF \E i \in 1..Len(fetched) : FloatRaises(fetched[i])
           THEN /\ pc' = "detect_and_match_stops raised"
                /\ positions_list' = <<>>
           ELSE /\ pc' = "fetched"
                /\ positions_list' =
                      [i \in 1..Len(fetched) |-> ToPositionDict(fetched[i])]
    /\ stop_events' = <<>>
    /\ UNCHANGED <<matchVars, apiVars, extVars, passVars, statVars>>

\* detect_and_match_stops from find_stop_events to the commit.
DetectFinish ==
    /\ pc = "fetched"
    /\ pc' = "idle"
    /\ LET events == IF positions_list = <<>> THEN <<>>
                     ELSE find_stop_events(positions_list)
           arrivals == MatchAll(txc_rows, events)
       IN  /\ stop_events' = events
           /\ vehicle_arrivals' = vehicle_arrivals \o arrivals
    /\ vehicle_positions' = MarkAllAnalyzed(vehicle_positions)
    /\ UNCHANGED <<positions_list, matchVars, apiVars, extVars, now, statVars>>

PassNext ==
    \/ AdvanceClock
    \/ store_vehicle_positions
    \/ DetectFetch
    \/ DetectFinish

SpecPass == PassInit /\ [][PassNext]_vars

\* The stop rows that serve the route (and direction, when known) of position p
\* and lie within the match radius of it.
StopsInReach(p) ==
    {i \in 1..Len(txc_rows) :
        /\ txc_rows[i].route_name = p.route_name
        /\ (p.direction # NULL => txc_rows[i].direction = p.direction)
        /\ haversine_distance_sq(p.latitude, p.longitude,
                                 txc_rows[i].latitude, txc_rows[i].longitude)
               < MatchRadiusCm * MatchRadiusCm}

\* The positions of the batch an event was built from: its first sample.
FirstSampleOf(e) ==
    {i \in 1..Len(positions_list) :
        /\ positions_list[i].vehicle_id = e.vehicle_id
        /\ positions_list[i].timestamp = e.stop_timestamp}

\* C3: every stop event of a finished pass carries the route_name and direction
\* of the positions it was built from, and a dwell of at least 2 samples within
\* the radius of a stop served by the vehicle's route has a matched arrival for
\* that stop in vehicle_arrivals.
C3_EventsCarryRoute ==
    (pc = "idle" /\ stop_events # <<>>) =>
        \A x \in 1..Len(stop_events) :
            \A i \in FirstSampleOf(stop_events[x]) :
                /\ DictGet(stop_events[x], "route_name", NULL) = positions_list[i].route_name
                /\ DictGet(stop_events[x], "direction", NULL) = positions_list[i].direction
                /\ StopsInReach(positions_list[i]) # {} =>
                      \E k \in 1..Len(vehicle_arrivals) :
                          /\ vehicle_arrivals[k].vehicle_id = stop_events[x].vehicle_id
                          /\ vehicle_arrivals[k].timestamp = stop_events[x].stop_timestamp
                          /\ \E r \in StopsInReach(positions_list[i]) :
                                vehicle_arrivals[k].naptan_id = txc_rows[r].naptan_id

\* C17: every position a pass flags as analyzed was in the batch the pass
\* read and gave to find_stop_events.
C17_FlagsOnlyTheBatch ==
    [][(pc = "fetched" /\ pc' = "idle") =>
          \A p \in vehicle_positions :
             (~p.analyzed /\ [p EXCEPT !.analyzed = TRUE] \in vehicle_positions')
                => \E i \in 1..Len(positions_list) :
                      /\ positions_list[i].vehicle_id = p.vehicle_id
                      /\ positions_list[i].timestamp = p.timestamp]_vars

\* The stored positions of vehicle v at polling round t.
PositionsAt(v, t) == {p \in vehicle_positions : p.vehicle_id = v /\ p.timestamp = t}

\* Vehicle v stood at location l in every polling round from a to b, was not
\* seen in the round before or after, a stop of its route is in reach of l, and
\* every one of these positions has been analysed.
ContinuousDwell(v, l, a, b) ==
    /\ a < b
    /\ PositionsAt(v, a - 1) = {} /\ PositionsAt(v, b + 1) = {}
    /\ \A t \in a..b :
          \E p \in PositionsAt(v, t) :
              /\ p.latitude = l[1] /\ p.longitude = l[2]
              /\ p.analyzed
              /\ StopsInReach(p) # {}

\* The arrivals of vehicle v with a timestamp in the rounds a to b.
ArrivalsOfDwell(v, a, b) ==
    {k \in 1..Len(vehicle_arrivals) :
        /\ vehicle_arrivals[k].vehicle_id = v
        /\ vehicle_arrivals[k].timestamp \in a..b}

\* C27: between passes, every continuous dwell of n >= 2 samples whose positions
\* have all been analysed has exactly one arrival in vehicle_arrivals, and its
\* dwell_time_seconds is 10 * n, however the samples were split between passes.
C27_OneArrivalPerDwell ==
    pc = "idle" =>
        \A v \in PassVehicles, l \in PassLocations, a, b \in 1..MaxPassTime :
            ContinuousDwell(v, l, a, b) =>
                /\ Cardinality(ArrivalsOfDwell(v, a, b)) = 1
                /\ \A k \in ArrivalsOfDwell(v, a, b) :
                      vehicle_arrivals[k].dwell_time_seconds
                          = PollSeconds * (b - a + 1)

(***************************************************************************)
(* Specification SpecBunching: arrivals come in over time while the        *)
(* baseline, bunching and pattern aggregations and the cleanup run in any  *)
(* order.  pc is the operation that ran last.                              *)
(***************************************************************************)
MaxArrivals == 4

\* An aggregation runs while every count it adds to is below this cap.
MaxObservations == 4

\* Minutes after the clock origin at which a vehicle can arrive.
BunchMinutes == {0, 20, 52, 57, 60, 61, 65}

\* The clock values of the specification, in rounds.
BunchClock == {m * RoundsPerMinute : m \in BunchMinutes \cup {125}}

\* The arrivals the analysis pass can insert: route 14 at stop S12 at each minute
\* of BunchMinutes, and one arrival of route 14 at stop S5.
ArrivalUniverse ==
    {[vehicle_id |-> "V1", route_name |-> "14", direction |-> "outbound",
      operator |-> "Arriva", naptan_id |-> "S12", timestamp |-> m * RoundsPerMinute,
      distance_sq |-> 1440000, dwell_time_seconds |-> 20] : m \in BunchMinutes}
    \cup
    {[vehicle_id |-> "V2", route_name |-> "14", direction |-> "outbound",
      operator |-> "Arriva", naptan_id |-> "S5", timestamp |-> 57 * RoundsPerMinute,
      distance_sq |-> 250000, dwell_time_seconds |-> 20]}

BunchInit ==
    /\ ApiIdle
    /\ ExtIdle
    /\ pc = "idle"
    /\ DetIdle
    /\ MatchIdle
    /\ PassIdle
    /\ StatIdle

\* NOW() moves on to a later clock value.
BunchTick ==
    /\ \E t \in BunchClock : t > now /\ now' = t
    /\ pc' = "idle"
    /\ UNCHANGED <<detVars, matchVars, apiVars, extVars, vehicle_positions, vehicle_arrivals, statVars>>

\* INSERT INTO vehicle_arrivals of one matched arrival of the last 30 minutes.
\* Arrivals come in by timestamp, and a route has no two arrivals at one stop
\* with the same timestamp.
InsertArrival ==
    /\ Len(vehicle_arrivals) < MaxArrivals
    /\ \E va \in ArrivalUniverse :
          /\ va.timestamp <= now
          /\ va.timestamp >= now - AnalysisWindow
          /\ \A i \in 1..Len(vehicle_arrivals) :
                /\ vehicle_arrivals[i].timestamp <= va.timestamp
                /\ vehicle_arrivals[i] # va
          /\ vehicle_arrivals' = Append(vehicle_arrivals, va)
    /\ pc' = "idle"
    /\ UNCHANGED <<detVars, matchVars, apiVars, extVars, now, vehicle_positions, statVars>>

\* aggregate_route_headways: the overall upsert, then the hourly upsert.
aggregate_route_headways ==
    /\ \A row \in route_headway_baselines \cup route_headway_baselines_hourly :
          row.observation_count < MaxObservations
    /\ route_headway_baselines' =
          UpsertBaselines(route_headway_baselines,
                          current_stats(ArrivalRows(vehicle_arrivals), now),
                          FALSE)
    /\ route_headway_baselines_hourly' =
          UpsertBaselines(route_headway_baselines_hourly,
                          hourly_stats(ArrivalRows(vehicle_arrivals), now),
                          TRUE)
    /\ pc' = "aggregate_route_headways"
    /\ UNCHANGED <<detVars, matchVars, apiVars, extVars, passVars, bunching_by_route_stop_hour,
                   arrivals_with_baseline, headway_patterns, sriVars>>

\* calculate_bunching_from_arrivals: the one INSERT ... ON CONFLICT statement.
calculate_bunching_from_arrivals ==
    /\ \A row \in bunching_by_route_stop_hour : row.observation_count < MaxObservations
    /\ \E pick \in HourlyPicks(ArrivalRows(vehicle_arrivals),
                               route_headway_baselines_hourly) :
          LET cte == ArrivalsWithBaseline(ArrivalRows(vehicle_arrivals),
                                          route_headway_baselines_hourly,
                                          route_headway_baselines, pick)
          IN  /\ arrivals_with_baseline' = cte
              /\ bunching_by_route_stop_hour' =
                    UpsertBunching(bunching_by_route_stop_hour,
                                   route_stop_hour_stats(cte, now))
    /\ pc' = "calculate_bunching_from_arrivals"
    /\ UNCHANGED <<detVars, matchVars, apiVars, extVars, passVars, route_headway_baselines,
                   route_headway_baselines_hourly, headway_patterns, sriVars>>

\* aggregate_headway_patterns: its statement filters COUNT(*) by a condition
\* that holds PERCENTILE_CONT, an aggregate of the same query level.  PostgreSQL
\* rejects an aggregate inside FILTER when it parses the statement, so
\* cur.execute raises, the handler rolls back and re-raises, and no row of
\* headway_patterns is ever written.
aggregate_headway_patterns ==
    /\ pc' = "aggregate_headway_patterns"
    /\ UNCHANGED <<detVars, matchVars, apiVars, extVars, passVars, statVars>>

\* cleanup_old_data: both DELETE statements.
cleanup_old_data ==
    /\ vehicle_positions' = CleanPositions(vehicle_positions, now)
    /\ vehicle_arrivals' = CleanArrivals(vehicle_arrivals, now)
    /\ pc' = "cleanup_old_data"
    /\ UNCHANGED <<detVars, matchVars, apiVars, extVars, now, statVars>>

BunchNext ==
    \/ BunchTick
    \/ InsertArrival
    \/ aggregate_route_headways
    \/ calculate_bunching_from_arrivals
    \/ aggregate_headway_patterns
    \/ cleanup_old_data

SpecBunching == BunchInit /\ [][BunchNext]_vars

\* The arrivals of vehicle_arrivals that have an earlier arrival of the same
\* route at the same stop, that is, the arrivals with a measured headway.
MeasuredArrivals ==
    {va \in ArrivalRows(vehicle_arrivals) :
        \E x \in ArrivalRows(vehicle_arrivals) :
            /\ x.route_name = va.route_name
            /\ x.naptan_id = va.naptan_id
            /\ x.timestamp < va.timestamp}

\* C4: a run of calculate_bunching_from_arrivals classifies every arrival that
\* has a measured headway, and classifies it as bunched if and only if its
\* headway is below max(0.5 * baseline, 2 minutes), the baseline being the one
\* selected for that arrival.
C4_BunchedIffBelowThreshold ==
    [][pc' = "calculate_bunching_from_arrivals" =>
          /\ \A va \in MeasuredArrivals :
                \E r \in arrivals_with_baseline' :
                    /\ r.route_name = va.route_name
                    /\ r.naptan_id = va.naptan_id
                    /\ r.timestamp = va.timestamp
          /\ \A r \in arrivals_with_baseline' :
                (r.is_bunched = 1) <=>
                    RatLess(r.headway_minutes,
                            RatGreatest(RatTimes(r.expected_headway_minutes, 1, 2),
                                        Rat(2, 1)))]_vars

\* C4, the case reached: a headway of 3 minutes against a baseline of 10 minutes
\* is classified bunched and counted in the bucket of its hour.
C4_Witness ==
    /\ pc = "calculate_bunching_from_arrivals"
    /\ \E r \in arrivals_with_baseline :
          /\ r.headway_minutes = Rat(3, 1)
          /\ r.expected_headway_minutes = Rat(10, 1)
          /\ r.is_bunched = 1
          /\ \E row \in bunching_by_route_stop_hour :
                /\ row.route_id = r.route_name
                /\ row.stop_id = r.naptan_id
                /\ row.hour_of_day = r.hour_of_day
                /\ row.bunched_arrivals >= 1

\* C5: the baseline a run of calculate_bunching_from_arrivals uses for an arrival
\* at (route, stop) in hour h is the median of the hourly baseline of
\* (route, stop, h) when that row exists, otherwise the median of the overall
\* baseline of (route, stop) when that row exists, otherwise 10 minutes.
C5_BaselinePreference ==
    [][pc' = "calculate_bunching_from_arrivals" =>
          \A r \in arrivals_with_baseline' :
              LET hourly == {b \in route_headway_baselines_hourly :
                                /\ b.route_id = r.route_name
                                /\ b.stop_id = r.naptan_id
                                /\ b.hour_of_day = r.hour_of_day}
                  overall == {b \in route_headway_baselines :
                                 /\ b.route_id = r.route_name
                                 /\ b.stop_id = r.naptan_id}
              IN  IF hourly # {}
                  THEN \E b \in hourly :
                          r.expected_headway_minutes = b.median_headway_minutes
                  ELSE IF overall # {}
                  THEN \E b \in overall :
                          r.expected_headway_minutes = b.median_headway_minutes
                  ELSE r.expected_headway_minutes = Rat(10, 1)]_vars

\* The baseline table after a run holds, for batch row b, the row the update rule
\* gives: b itself when the key had no row, otherwise 0.7 * stored + 0.3 * batch
\* for the median and the average and the count raised by the count of b.
BaselineUpdated(before, after, b, by_hour) ==
    LET SameKey(x, y) == /\ x.route_id = y.route_id
                         /\ x.stop_id = y.stop_id
                         /\ by_hour => x.hour_of_day = y.hour_of_day
        stored == {row \in before : SameKey(row, b)}
        written == {row \in after : SameKey(row, b)}
    IN  /\ Cardinality(written) = 1
        /\ \A w \in written :
              IF stored = {} THEN w = b
              ELSE \A s \in stored :
                      /\ w.median_headway_minutes =
                            RatAdd(RatTimes(s.median_headway_minutes, 7, 10),
                                   RatTimes(b.median_headway_minutes, 3, 10))
                      /\ w.avg_headway_minutes =
                            RatAdd(RatTimes(s.avg_headway_minutes, 7, 10),
                                   RatTimes(b.avg_headway_minutes, 3, 10))
                      /\ w.observation_count = s.observation_count + b.observation_count

\* C6: a run of aggregate_route_headways leaves, for every (route, stop) and every
\* (route, stop, hour) that has a batch, a baseline seeded from the batch when
\* there was no row and 0.7 * stored + 0.3 * batch for median and average when
\* there was one, with observation_count raised by the number of headways of the
\* batch; the count of a batch is the number of its headways inside the sanity
\* band, and a baseline without a batch stays as it was.
C6_SeedThenBlend ==
    [][pc' = "aggregate_route_headways" =>
          LET arrivals == ArrivalRows(vehicle_arrivals)
              batch == current_stats(arrivals, now)
              batch_hourly == hourly_stats(arrivals, now)
          IN  /\ \A b \in batch :
                    /\ BaselineUpdated(route_headway_baselines,
                                       route_headway_baselines', b, FALSE)
                    /\ b.observation_count =
                          Cardinality({h \in route_headways(arrivals, now) :
                                          /\ h.route_name = b.route_id
                                          /\ h.stop_id = b.stop_id
                                          /\ RatLess(Rat(1, 1), h.headway_minutes)
                                          /\ RatLess(h.headway_minutes, Rat(60, 1))})
              /\ \A b \in batch_hourly :
                    /\ BaselineUpdated(route_headway_baselines_hourly,
                                       route_headway_baselines_hourly', b, TRUE)
                    /\ b.observation_count =
                          Cardinality({h \in route_headways_hourly(arrivals, now) :
                                          /\ h.route_name = b.route_id
                                          /\ h.stop_id = b.stop_id
                                          /\ h.hour_of_day = b.hour_of_day
                                          /\ RatLess(Rat(1, 1), h.headway_minutes)
                                          /\ RatLess(h.headway_minutes, Rat(60, 1))})
              /\ \A row \in route_headway_baselines :
                    (~\E b \in batch : SameRouteStop(row, b))
                        => row \in route_headway_baselines'
              /\ \A row \in route_headway_baselines_hourly :
                    (~\E b \in batch_hourly : SameRouteStopHour(row, b))
                        => row \in route_headway_baselines_hourly'
              /\ Cardinality(route_headway_baselines') =
                    Cardinality(route_headway_baselines)
                    + Cardinality({b \in batch :
                          ~\E row \in route_headway_baselines : SameRouteStop(row, b)})
              /\ Cardinality(route_headway_baselines_hourly') =
                    Cardinality(route_headway_baselines_hourly)
                    + Cardinality({b \in batch_hourly :
                          ~\E row \in route_headway_baselines_hourly :
                              SameRouteStopHour(row, b)})]_vars

\* C6, the case reached: a baseline seeded with median 4 and average 4 from two
\* headways has taken in a batch of three headways with median 5 and average
\* 13/3: median 4.3, average 4.1, five observations.
C6_Witness ==
    /\ pc = "aggregate_route_headways"
    /\ \E row \in route_headway_baselines :
          /\ row.median_headway_minutes = Rat(43, 10)
          /\ row.avg_headway_minutes = Rat(41, 10)
          /\ row.observation_count = 5

\* The counts of the buckets of bunching_by_route_stop_hour.
BunchingCounts(table) ==
    {[route_id |-> row.route_id, stop_id |-> row.stop_id,
      hour_of_day |-> row.hour_of_day, total_arrivals |-> row.total_arrivals,
      bunched_arrivals |-> row.bunched_arrivals,
      observation_count |-> row.observation_count] : row \in table}

\* C7: a pass that runs again right after itself, on the same vehicle_arrivals,
\* leaves observation_count, total_arrivals and bunched_arrivals of every bucket
\* as the first run left them.
C7_RerunKeepsCounts ==
    [][/\ (pc = "calculate_bunching_from_arrivals"
             /\ pc' = "calculate_bunching_from_arrivals")
          => BunchingCounts(bunching_by_route_stop_hour')
                = BunchingCounts(bunching_by_route_stop_hour)
       /\ (pc = "aggregate_headway_patterns" /\ pc' = "aggregate_headway_patterns")
          => headway_patterns' = headway_patterns]_vars

(***************************************************************************)
(* Specification SpecSri: the analysis scripts and the SRI pipeline over   *)
(* one morning of arrivals.  Passes do not overlap.  An analysis pass runs  *)
(* the bunching calculation, the baseline aggregation and the cleanup in   *)
(* the order of analysis_pipeline; an SRI pipeline run takes its six steps *)
(* in the order of run_sri_pipeline_simple, the operator answering y after *)
(* the failure of the first step; create_monthly_daily_aggregates runs on  *)
(* its own.                                                                *)
(***************************************************************************)
\* A pipeline run starts while every pattern count it adds to is below this cap.
MaxPatternObservations == 8

\* create_monthly_daily_aggregates runs while the index has fewer rows than this.
MaxSriRows == 5

\* A pipeline run starts while the network index has fewer rows than this.
MaxNetworkRows == 6

\* The clock values of the specification, in rounds.
SriClock == {m * RoundsPerMinute : m \in {35, 40, 100}}

\* Four vehicles of route 14 call at S5, S12 and S30: <<minute, vehicle, stop>>
\* in order of arrival.
SriVisits ==
    << <<0, "V1", "S5">>,   <<4, "V1", "S12">>,  <<8, "V1", "S30">>,
       <<8, "V2", "S5">>,   <<13, "V2", "S12">>, <<16, "V3", "S5">>,
       <<19, "V2", "S30">>, <<22, "V3", "S12">>, <<24, "V4", "S5">>,
       <<29, "V4", "S12">>, <<30, "V3", "S30">>, <<35, "V4", "S30">> >>

\* The square of the matched distance of an arrival at each stop.
StopDistanceSq == [S5 |-> 250000, S12 |-> 1440000, S30 |-> 9000000]

\* Table vehicle_arrivals at 08:35.
SriArrivals ==
    [i \in 1..Len(SriVisits) |->
        [vehicle_id |-> SriVisits[i][2], route_name |-> "14", direction |-> "outbound",
         operator |-> "Arriva", naptan_id |-> SriVisits[i][3],
         timestamp |-> SriVisits[i][1] * RoundsPerMinute,
         distance_sq |-> StopDistanceSq[SriVisits[i][3]], dwell_time_seconds |-> 20]]

SriInit ==
    /\ ApiIdle
    /\ ExtIdle
    /\ pc = "idle"
    /\ DetIdle
    /\ MatchIdle
    /\ StatIdle
    /\ now = 35 * RoundsPerMinute
    /\ vehicle_positions = {}
    /\ vehicle_arrivals = SriArrivals

\* The steps of a pass after which its next step is still to come.
MidPass ==
    {"calculate_bunching_from_arrivals", "aggregate_route_headways",
     "aggregate_headway_patterns", "aggregate_schedule_adherence_patterns",
     "aggregate_journey_time_patterns", "aggregate_service_delivery_patterns",
     "calculate_component_scores"}

\* No pass is under way.
PassStart == pc \notin MidPass

\* Every baseline and bunching count is below its cap.
AnalysisRoom ==
    \A row \in route_headway_baselines \cup route_headway_baselines_hourly
                \cup bunching_by_route_stop_hour :
        row.observation_count < MaxObservations

\* Every pattern count and the network index are below their caps.
PipelineRoom ==
    /\ \A row \in schedule_adherence_patterns \cup journey_time_patterns :
          row.observation_count < MaxPatternObservations
    /\ \A row \in service_delivery_patterns :
          row.scheduled_trips < MaxPatternObservations
    /\ Len(network_reliability_index) < MaxNetworkRows

\* NOW() moves on to a later clock value.
SriTick ==
    /\ \E t \in SriClock : t > now /\ now' = t
    /\ pc' = "idle"
    /\ UNCHANGED <<detVars, matchVars, apiVars, extVars, vehicle_positions, vehicle_arrivals, statVars>>

\* aggregate_schedule_adherence_patterns: one upsert per key, committed together.
aggregate_schedule_adherence_patterns ==
    /\ schedule_adherence_patterns' =
          UpsertAdherence(schedule_adherence_patterns,
                          AdherencePatterns(ArrivalRows(vehicle_arrivals), now))
    /\ pc' = "aggregate_schedule_adherence_patterns"
    /\ UNCHANGED <<detVars, matchVars, apiVars, extVars, passVars, bunchVars, headway_patterns,
                   journey_time_patterns, service_delivery_patterns, scoreVars,
                   indexVars, sri_config>>

\* aggregate_journey_time_patterns: the one INSERT ... ON CONFLICT statement.
aggregate_journey_time_patterns ==
    /\ journey_time_patterns' =
          UpsertJourney(journey_time_patterns,
                        journey_stats(ArrivalRows(vehicle_arrivals), now))
    /\ pc' = "aggregate_journey_time_patterns"
    /\ UNCHANGED <<detVars, matchVars, apiVars, extVars, passVars, bunchVars, headway_patterns,
                   schedule_adherence_patterns, service_delivery_patterns, scoreVars,
                   indexVars, sri_config>>

\* aggregate_service_delivery_patterns: the one INSERT ... ON CONFLICT statement.
aggregate_service_delivery_patterns ==
    /\ service_delivery_patterns' =
          UpsertDelivery(service_delivery_patterns,
                         aggregated_patterns(ArrivalRows(vehicle_arrivals), now))
    /\ pc' = "aggregate_service_delivery_patterns"
    /\ UNCHANGED <<detVars, matchVars, apiVars, extVars, passVars, bunchVars, headway_patterns,
                   schedule_adherence_patterns, journey_time_patterns, scoreVars,
                   indexVars, sri_config>>

\* calculate_component_scores: it returns at once without an active
\* configuration; otherwise each score table is upserted and then regraded,
\* every statement committed on its own.  A statement that raises ends the run:
\* what was committed before stays, the rest is left alone.  The schedule
\* adherence step is skipped, so schedule_adherence_scores is left alone.
calculate_component_scores ==
    /\ IF ActiveConfigs(sri_config) = {}
       THEN UNCHANGED scoreVars /\ pc' = "calculate_component_scores"
       ELSE \E config \in ActiveConfigs(sri_config) :
               LET hcDone == ~HeadwayRaises(headway_patterns, config)
                   jtDone == hcDone /\ ~JourneyRaises(journey_time_patterns, config)
                   sdDone == jtDone /\ ~DeliveryRaises(service_delivery_patterns, config)
               IN  /\ headway_consistency_scores' =
                         IF hcDone
                         THEN UpdateGrades(UpsertScores(headway_consistency_scores,
                                               HeadwayScores(headway_patterns, config)))
                         ELSE headway_consistency_scores
                   /\ journey_time_consistency_scores' =
                         IF jtDone
                         THEN UpdateGrades(UpsertScores(journey_time_consistency_scores,
                                               JourneyScores(journey_time_patterns,
                                                             config)))
                         ELSE journey_time_consistency_scores
                   /\ service_delivery_scores' =
                         IF sdDone
                         THEN UpdateGrades(UpsertScores(service_delivery_scores,
                                               DeliveryScores(service_delivery_patterns,
                                                              config)))
                         ELSE service_delivery_scores
                   /\ UNCHANGED schedule_adherence_scores
                   /\ pc' = IF sdDone THEN "calculate_component_scores"
                            ELSE "calculate_component_scores raised"
    /\ UNCHANGED <<detVars, matchVars, apiVars, extVars, passVars, bunchVars, headway_patterns,
                   patternVars, indexVars, sri_config>>

\* calculate_sri_scores: it returns at once without an active configuration;
\* otherwise the route-level upsert, then the three network statements.
calculate_sri_scores ==
    /\ IF ActiveConfigs(sri_config) = {}
       THEN UNCHANGED indexVars
       ELSE \E config \in ActiveConfigs(sri_config) :
               LET index == UpsertSri(service_reliability_index,
                                      RowSeq(component_scores(
                                                 headway_consistency_scores,
                                                 schedule_adherence_scores,
                                                 journey_time_consistency_scores,
                                                 service_delivery_scores, config)),
                                      TRUE)
               IN  /\ service_reliability_index' = index
                   /\ network_reliability_index' =
                         NetworkAfterSriScores(network_reliability_index, index)
    /\ pc' = "calculate_sri_scores"
    /\ UNCHANGED <<detVars, matchVars, apiVars, extVars, passVars, bunchVars, headway_patterns,
                   patternVars, scoreVars, sri_config>>

\* create_monthly_daily_aggregates: the daily statement, the monthly statement
\* over its result, then the network statement over theirs.
create_monthly_daily_aggregates ==
    /\ LET daily   == UpsertSri(service_reliability_index,
                                RowSeq(CoarseRows(service_reliability_index, TRUE)),
                                FALSE)
           monthly == UpsertSri(daily, RowSeq(CoarseRows(daily, FALSE)), FALSE)
       IN  /\ service_reliability_index' = monthly
           /\ network_reliability_index' =
                 UpsertNetwork(network_reliability_index,
                               RowSeq(NetworkRows(monthly, "all", TRUE)), TRUE)
    /\ pc' = "create_monthly_daily_aggregates"
    /\ UNCHANGED <<detVars, matchVars, apiVars, extVars, passVars, bunchVars, headway_patterns,
                   patternVars, scoreVars, sri_config>>

SriNext ==
    \/ PassStart /\ SriTick
    \/ PassStart /\ AnalysisRoom /\ calculate_bunching_from_arrivals
    \/ pc = "calculate_bunching_from_arrivals" /\ aggregate_route_headways
    \/ pc = "aggregate_route_headways" /\ cleanup_old_data
    \/ PassStart /\ PipelineRoom /\ aggregate_headway_patterns
    \/ pc = "aggregate_headway_patterns" /\ aggregate_schedule_adherence_patterns
    \/ pc = "aggregate_schedule_adherence_patterns" /\ aggregate_journey_time_patterns
    \/ pc = "aggregate_journey_time_patterns" /\ aggregate_service_delivery_patterns
    \/ pc = "aggregate_service_delivery_patterns" /\ calculate_component_scores
    \/ pc = "calculate_component_scores" /\ calculate_sri_scores
    \/ PassStart /\ Len(service_reliability_index) < MaxSriRows
                 /\ create_monthly_daily_aggregates

SpecSri == SriInit /\ [][SriNext]_vars

\* The daily and monthly rows of the index as the values C8 names: the bucket,
\* the component scores, sri_score, sri_grade and observation_count.
CoarseValues(table) ==
    {[bucket |-> SriKey(table[i]),
      headway_consistency_score |-> table[i].headway_consistency_score,
      schedule_adherence_score |-> table[i].schedule_adherence_score,
      journey_time_consistency_score |-> table[i].journey_time_consistency_score,
      service_delivery_score |-> table[i].service_delivery_score,
      sri_score |-> table[i].sri_score,
      sri_grade |-> table[i].sri_grade,
      observation_count |-> table[i].observation_count] :
        i \in {j \in 1..Len(table) : table[j].hour = SqlNull}}

\* C8: coarsening is idempotent.  When create_monthly_daily_aggregates runs
\* again right after a run of its own, so that the hourly rows are the same
\* for both runs, the set of daily and monthly rows with their component
\* scores, sri_score, sri_grade and observation_count is the same after the
\* second run as after the first.
C8_CoarseningIdempotent ==
    [][(/\ pc = "create_monthly_daily_aggregates"
        /\ pc' = "create_monthly_daily_aggregates")
       => CoarseValues(service_reliability_index')
              = CoarseValues(service_reliability_index)]_vars

\* C9: after any sequence of runs of calculate_sri_scores and
\* create_monthly_daily_aggregates both index tables hold one row per (entity,
\* time bucket), the daily buckets (no hour) and the monthly buckets (neither
\* day_of_week nor hour) included: no two rows of a table have the same key.
C9_OneRowPerBucket ==
    /\ \A i, j \in 1..Len(service_reliability_index) :
          i # j => SriKey(service_reliability_index[i])
                       # SriKey(service_reliability_index[j])
    /\ \A i, j \in 1..Len(network_reliability_index) :
          i # j => NetworkKey(network_reliability_index[i])
                       # NetworkKey(network_reliability_index[j])

\* The rows of a table in insertion order stay where they are, keep their key
\* and do not lose observations; a row without a count has none to lose.
IndexCountsKept(before, after, network) ==
    \A i \in 1..Len(before) :
        /\ i <= Len(after)
        /\ IF network
           THEN /\ NetworkKey(after[i]) = NetworkKey(before[i])
                /\ before[i].observation_count # SqlNull
                      => /\ after[i].observation_count # SqlNull
                         /\ ValueOf(after[i].observation_count)
                                >= ValueOf(before[i].observation_count)
           ELSE /\ SriKey(after[i]) = SriKey(before[i])
                /\ after[i].observation_count >= before[i].observation_count

\* Every bucket of the table before a step is a bucket of the table after it,
\* with at least the observations it had; kind names the key of the table.
CountsKept(before, after, kind) ==
    \A r \in before : \E q \in after :
        /\ q.observation_count >= r.observation_count
        /\ CASE kind = "route_stop" -> SameRouteStop(r, q)
             [] kind = "route_stop_hour" -> SameRouteStopHour(r, q)
             [] kind = "stop_bucket" -> AdherenceRowKey(r) = AdherenceRowKey(q)
             [] kind = "journey" -> JourneyKey(r) = JourneyKey(q)
             [] kind = "bucket" -> BucketKey(r) = BucketKey(q)

\* C10: across any sequence of passes the observation_count of no bucket ever
\* decreases: not of a headway, schedule adherence or journey time pattern
\* row, not of a baseline or bunching row, not of a component score row and
\* not of a row of the two indexes.
C10_ObservationCountMonotone ==
    [][/\ CountsKept(route_headway_baselines, route_headway_baselines', "route_stop")
       /\ CountsKept(route_headway_baselines_hourly, route_headway_baselines_hourly',
                     "route_stop_hour")
       /\ CountsKept(bunching_by_route_stop_hour, bunching_by_route_stop_hour',
                     "route_stop_hour")
       /\ CountsKept(headway_patterns, headway_patterns', "stop_bucket")
       /\ CountsKept(schedule_adherence_patterns, schedule_adherence_patterns',
                     "stop_bucket")
       /\ CountsKept(journey_time_patterns, journey_time_patterns', "journey")
       /\ CountsKept(headway_consistency_scores, headway_consistency_scores', "bucket")
       /\ CountsKept(schedule_adherence_scores, schedule_adherence_scores', "bucket")
       /\ CountsKept(journey_time_consistency_scores, journey_time_consistency_scores',
                     "bucket")
       /\ CountsKept(service_delivery_scores, service_delivery_scores', "bucket")
       /\ IndexCountsKept(service_reliability_index, service_reliability_index', FALSE)
       /\ IndexCountsKept(network_reliability_index, network_reliability_index', TRUE)
      ]_vars

\* Two analysis passes and two pipeline runs have added to the counts: a
\* baseline row, a bunching row, a schedule adherence row, a journey time row
\* and its score row have grown past their first values, and the hourly index
\* row has grown from 12 to 24 observations.
C10_Witness ==
    /\ \E r \in route_headway_baselines : r.stop_id = "S30" /\ r.observation_count > 3
    /\ \E r \in bunching_by_route_stop_hour : r.observation_count = 6
    /\ \E r \in schedule_adherence_patterns : r.observation_count = 4
    /\ \E r \in journey_time_patterns : r.observation_count = 8
    /\ \E r \in journey_time_consistency_scores : r.observation_count = 16
    /\ Len(service_reliability_index) >= 1
    /\ service_reliability_index[1].observation_count = 24

(***************************************************************************)
(* Specification SpecScorer: calculate_component_scores and                *)
(* calculate_sri_scores as functions of the pattern tables, the schedule   *)
(* adherence scores and the configuration they find in the database.       *)
(***************************************************************************)
\* The bucket of route 14 outbound on a Thursday of January 2025 at an hour.
ScorerBucket(hour) ==
    [route_name |-> "14", direction |-> "outbound", operator |-> "Arriva",
     year |-> ClockYear, month |-> ClockMonth, day_of_week |-> ClockDow, hour |-> hour]

\* A row of headway_patterns with a coefficient of variation.
ScorerHeadwayPattern(hour, cv) ==
    ScorerBucket(hour) @@
    [stop_id |-> "S12", coefficient_of_variation |-> SqlVal(cv),
     bunching_rate |-> Rat(25, 1), std_headway_minutes |-> Rat(3, 1),
     observation_count |-> 4]

\* A row of journey_time_patterns with a coefficient of variation.
ScorerJourneyPattern(hour, cv) ==
    ScorerBucket(hour) @@
    [origin_stop_id |-> "S5", destination_stop_id |-> "S12",
     avg_journey_minutes |-> Rat(5, 1), std_journey_minutes |-> Rat(1, 1),
     median_journey_minutes |-> Rat(5, 1), coefficient_of_variation |-> SqlVal(cv),
     percentile_85_minutes |-> Rat(6, 1), observation_count |-> 12]

\* A row of service_delivery_patterns with a delivery rate and a trip count.
ScorerDeliveryPattern(hour, rate, trips) ==
    ScorerBucket(hour) @@
    [scheduled_trips |-> trips, completed_trips |-> trips, cancelled_trips |-> 0,
     partial_trips |-> 0, service_delivery_rate |-> SqlVal(rate)]

\* A row of schedule_adherence_scores.
ScorerAdherenceScore(hour) ==
    ScorerBucket(hour) @@
    [on_time_percentage |-> Rat(86, 1), score |-> Rat(80, 1), grade |-> "B",
     observation_count |-> 4]

\* At most one row of the first set and at most one of the second.
OneOfEach(first, second) ==
    {a \cup b : a \in {{}} \cup {{r} : r \in first},
                b \in {{}} \cup {{r} : r \in second}}

ScorerHeadwayTables ==
    OneOfEach({ScorerHeadwayPattern(8, cv) : cv \in {Rat(1, 10), Rat(9, 20)}}, {})

ScorerJourneyTables ==
    OneOfEach({ScorerJourneyPattern(8, cv) :
                  cv \in {Rat(1, 10), Rat(2751, 10000), Rat(4, 5)}},
              {ScorerJourneyPattern(9, cv) : cv \in {Rat(0, 1), Rat(9, 20), Rat(50, 1)}})

ScorerDeliveryTables ==
    OneOfEach({ScorerDeliveryPattern(8, rate, 4) :
                  rate \in {Rat(50, 1), Rat(145, 2), Rat(100, 1)}},
              {ScorerDeliveryPattern(9, rate, 1) : rate \in {Rat(0, 1), Rat(100, 1)}})

\* A configuration with other anchors and equal weights.
TunedConfig ==
    [DefaultConfig EXCEPT !.headway_weight = Rat(1, 4), !.schedule_weight = Rat(1, 4),
                          !.journey_time_weight = Rat(1, 4),
                          !.service_delivery_weight = Rat(1, 4),
                          !.journey_cv_excellent = Rat(1, 5),
                          !.journey_cv_poor = Rat(9, 20),
                          !.service_delivery_excellent = Rat(100, 1),
                          !.service_delivery_poor = Rat(0, 1)]

\* A configuration whose journey-time anchors are equal.
FlatConfig == [DefaultConfig EXCEPT !.journey_cv_poor = Rat(1, 10)]

\* A configuration whose anchors are the wrong way round.
SwappedConfig ==
    [DefaultConfig EXCEPT !.headway_cv_excellent = Rat(4, 5),
                          !.headway_cv_poor = Rat(1, 10),
                          !.journey_cv_excellent = Rat(4, 5),
                          !.journey_cv_poor = Rat(1, 10),
                          !.service_delivery_excellent = Rat(50, 1),
                          !.service_delivery_poor = Rat(95, 1)]

\* The contents of sri_config the specification starts from.
ScorerConfigTables ==
    {SriConfigRows, {DraftConfig}, {TunedConfig, DraftConfig}, {FlatConfig},
     {SwappedConfig}}

ScorerInit ==
    /\ ApiIdle
    /\ ExtIdle
    /\ pc = "idle"
    /\ DetIdle
    /\ MatchIdle
    /\ PassIdle
    /\ route_headway_baselines = {}
    /\ route_headway_baselines_hourly = {}
    /\ bunching_by_route_stop_hour = {}
    /\ arrivals_with_baseline = {}
    /\ headway_patterns \in ScorerHeadwayTables
    /\ schedule_adherence_patterns = {}
    /\ journey_time_patterns \in ScorerJourneyTables
    /\ service_delivery_patterns \in ScorerDeliveryTables
    /\ headway_consistency_scores = {}
    /\ schedule_adherence_scores \in {{}, {ScorerAdherenceScore(8)}}
    /\ journey_time_consistency_scores = {}
    /\ service_delivery_scores = {}
    /\ service_reliability_index = <<>>
    /\ network_reliability_index = <<>>
    /\ sri_config \in ScorerConfigTables

ScorerNext ==
    \/ calculate_component_scores
    \/ calculate_sri_scores

SpecScorer == ScorerInit /\ [][ScorerNext]_vars

\* The score rows the component scorer writes.
ComponentScoreRows ==
    headway_consistency_scores \cup journey_time_consistency_scores
        \cup service_delivery_scores

\* C11: every score in headway_consistency_scores,
\* journey_time_consistency_scores and service_delivery_scores lies in
\* [0, 100], whatever the raw statistic and whatever the anchors of the
\* active configuration.
C11_ScoreBounds ==
    \A r \in ComponentScoreRows :
        /\ ~RatLess(r.score, Rat(0, 1))
        /\ ~RatLess(Rat(100, 1), r.score)

\* A journey-time cv of 50 was scored 0 and a delivery rate of 100, above the
\* excellent anchor 95, was scored 100.
C11_Witness ==
    /\ pc = "calculate_component_scores"
    /\ DefaultConfig \in ActiveConfigs(sri_config)
    /\ \E r \in journey_time_consistency_scores :
          r.coefficient_of_variation = Rat(50, 1) /\ r.score = Rat(0, 1)
    /\ \E r \in service_delivery_scores :
          r.service_delivery_rate = Rat(100, 1) /\ r.score = Rat(100, 1)

IndexBucket(r) ==
    <<r.route_name, r.direction, r.operator, r.year, r.month,
      ValueOf(r.day_of_week), ValueOf(r.hour)>>

\* The score of bucket k in a score table, 50 when the table has no row for it.
ScoreOrNeutral(table, k) ==
    IF \E s \in table : BucketKey(s) = k
    THEN (CHOOSE s \in table : BucketKey(s) = k).score
    ELSE Rat(50, 1)

\* weight_h * h + weight_s * s + weight_j * j + weight_d * d for the four
\* component scores of bucket k and the weights of configuration c.
Composite(k, c) ==
    RatAdd(RatAdd(RatTimes(ScoreOrNeutral(headway_consistency_scores, k),
                           c.headway_weight.n, c.headway_weight.d),
                  RatTimes(ScoreOrNeutral(schedule_adherence_scores, k),
                           c.schedule_weight.n, c.schedule_weight.d)),
           RatAdd(RatTimes(ScoreOrNeutral(journey_time_consistency_scores, k),
                           c.journey_time_weight.n, c.journey_time_weight.d),
                  RatTimes(ScoreOrNeutral(service_delivery_scores, k),
                           c.service_delivery_weight.n, c.service_delivery_weight.d)))

\* The section 4.6 bucketing of a score.
GradeBucket(score) ==
    IF ~RatLess(score, Rat(90, 1)) THEN "A"
    ELSE IF ~RatLess(score, Rat(80, 1)) THEN "B"
    ELSE IF ~RatLess(score, Rat(70, 1)) THEN "C"
    ELSE IF ~RatLess(score, Rat(60, 1)) THEN "D"
    ELSE "F"

\* The four component scores and the four weights of an index row.
ComponentsOf(r) ==
    <<r.headway_consistency_score, r.schedule_adherence_score,
      r.journey_time_consistency_score, r.service_delivery_score,
      r.headway_weight, r.schedule_weight, r.journey_time_weight,
      r.service_delivery_weight>>

\* C13 as stated: right after calculate_sri_scores every row of
\* service_reliability_index has sri_score equal to the weighted sum of its
\* four component scores, a component without a row in its score table
\* counting 50.
C13_CompositeExact ==
    pc = "calculate_sri_scores" =>
       \A c \in ActiveConfigs(sri_config) :
          \A i \in 1..Len(service_reliability_index) :
             service_reliability_index[i].sri_score
                = Composite(IndexBucket(service_reliability_index[i]), c)

\* C13 amended: right after calculate_sri_scores every row of
\* service_reliability_index has sri_score equal to the weighted sum of its
\* four component scores rounded to 2 decimals, a component without a row in
\* its score table counting 50; rows with the same component scores and
\* weights have the same sri_score and the same sri_grade.
C13_CompositeRounded ==
    pc = "calculate_sri_scores" =>
       /\ \A c \in ActiveConfigs(sri_config) :
             \A i \in 1..Len(service_reliability_index) :
                LET r == service_reliability_index[i]
                    k == IndexBucket(r)
                IN  /\ r.sri_score = RatRound(Composite(k, c), 100)
                    /\ r.headway_consistency_score
                          = ScoreOrNeutral(headway_consistency_scores, k)
                    /\ r.schedule_adherence_score
                          = ScoreOrNeutral(schedule_adherence_scores, k)
                    /\ r.journey_time_consistency_score
                          = ScoreOrNeutral(journey_time_consistency_scores, k)
                    /\ r.service_delivery_score
                          = ScoreOrNeutral(service_delivery_scores, k)
       /\ \A i, j \in 1..Len(service_reliability_index) :
             ComponentsOf(service_reliability_index[i])
                   = ComponentsOf(service_reliability_index[j])
                => /\ service_reliability_index[i].sri_score
                         = service_reliability_index[j].sri_score
                   /\ service_reliability_index[i].sri_grade
                         = service_reliability_index[j].sri_grade

\* calculate_sri_scores wrote a row with a headway score of its own, the
\* schedule adherence score 80 of its table, and a composite that needed
\* rounding; and a row for another hour with two components at 50.
C13_Witness ==
    /\ pc = "calculate_sri_scores"
    /\ Len(service_reliability_index) = 2
    /\ \E i \in 1..2 :
          LET r == service_reliability_index[i]
          IN  /\ \E s \in headway_consistency_scores : BucketKey(s) = IndexBucket(r)
              /\ r.schedule_adherence_score = Rat(80, 1)
              /\ \E c \in ActiveConfigs(sri_config) :
                    r.sri_score # Composite(IndexBucket(r), c)
    /\ \E i \in 1..2 :
          LET r == service_reliability_index[i]
          IN  /\ r.headway_consistency_score = Rat(50, 1)
              /\ r.schedule_adherence_score = Rat(50, 1)
              /\ ~\E s \in headway_consistency_scores : BucketKey(s) = IndexBucket(r)

\* C14: every row of service_reliability_index carries the grade of the
\* sri_score it stores: A from 90, B from 80, C from 70, D from 60, else F.
C14_GradeOfStoredScore ==
    \A i \in 1..Len(service_reliability_index) :
       service_reliability_index[i].sri_grade
          = GradeBucket(service_reliability_index[i].sri_score)

\* C15: after calculate_component_scores has returned normally every row of
\* the three score tables it writes has the grade of its score (A from 90,
\* B from 80, C from 70, D from 60, else F), which is what get_grade returns.
C15_GradesMatchScores ==
    pc = "calculate_component_scores" =>
       \A r \in ComponentScoreRows :
          /\ r.grade = GradeBucket(r.score)
          /\ r.grade = get_grade(r.score)

\* calculate_component_scores returned normally with rows graded A and F, the
\* placeholder C replaced.
C15_Witness ==
    /\ pc = "calculate_component_scores"
    /\ \E r \in journey_time_consistency_scores : r.grade = "F"
    /\ \E r \in service_delivery_scores : r.grade = "A"
    /\ \E r \in headway_consistency_scores : r.grade \in {"A", "F"}

\* C16: no row of a component-score table, and no row of
\* service_reliability_index, belongs to a bucket that has a pattern row with
\* fewer than 3 observations.
C16_MinimumObservations ==
    LET MinObservations == 3
        thin == {BucketKey(p) : p \in {x \in headway_patterns \cup journey_time_patterns :
                                          x.observation_count < MinObservations}}
                \cup {BucketKey(p) : p \in {x \in service_delivery_patterns :
                                               x.scheduled_trips < MinObservations}}
    IN  /\ \A r \in ComponentScoreRows : BucketKey(r) \notin thin
        /\ \A i \in 1..Len(service_reliability_index) :
              IndexBucket(service_reliability_index[i]) \notin thin

(***************************************************************************)
(* Specification SpecScoreSteps: calculate_component_scores transaction by *)
(* transaction.  Every statement of the function is followed by            *)
(* conn.commit(), so each state here is one a reader of the score tables   *)
(* can see.  pc is the transaction committed last.                         *)
(***************************************************************************)
\* The values of pc at which no run of calculate_component_scores is under way.
ScorerAtRest == {"idle", "calculate_component_scores", "calculate_component_scores raised"}

\* The configuration query and the headway INSERT ... ON CONFLICT, committed.
upsert_headway_scores ==
    /\ pc \in ScorerAtRest
    /\ IF ActiveConfigs(sri_config) = {}
       THEN pc' = "calculate_component_scores" /\ UNCHANGED headway_consistency_scores
       ELSE \E config \in ActiveConfigs(sri_config) :
               IF HeadwayRaises(headway_patterns, config)
               THEN /\ pc' = "calculate_component_scores raised"
                    /\ UNCHANGED headway_consistency_scores
               ELSE /\ pc' = "headway scores upserted"
                    /\ headway_consistency_scores' =
                          UpsertScores(headway_consistency_scores,
                                       HeadwayScores(headway_patterns, config))
    /\ UNCHANGED <<detVars, matchVars, apiVars, extVars, passVars, bunchVars, headway_patterns,
                   patternVars, schedule_adherence_scores,
                   journey_time_consistency_scores, service_delivery_scores,
                   indexVars, sri_config>>

\* UPDATE headway_consistency_scores SET grade = CASE ..., committed.
grade_headway_scores ==
    /\ pc = "headway scores upserted"
    /\ pc' = "headway scores graded"
    /\ headway_consistency_scores' = UpdateGrades(headway_consistency_scores)
    /\ UNCHANGED <<detVars, matchVars, apiVars, extVars, passVars, bunchVars, headway_patterns,
                   patternVars, schedule_adherence_scores,
                   journey_time_consistency_scores, service_delivery_scores,
                   indexVars, sri_config>>

\* The journey-time INSERT ... ON CONFLICT, committed.
upsert_journey_scores ==
    /\ pc = "headway scores graded"
    /\ \E config \in ActiveConfigs(sri_config) :
          IF JourneyRaises(journey_time_patterns, config)
          THEN /\ pc' = "calculate_component_scores raised"
               /\ UNCHANGED journey_time_consistency_scores
          ELSE /\ pc' = "journey scores upserted"
               /\ journey_time_consistency_scores' =
                     UpsertScores(journey_time_consistency_scores,
                                  JourneyScores(journey_time_patterns, config))
    /\ UNCHANGED <<detVars, matchVars, apiVars, extVars, passVars, bunchVars, headway_patterns,
                   patternVars, headway_consistency_scores, schedule_adherence_scores,
                   service_delivery_scores, indexVars, sri_config>>

\* UPDATE journey_time_consistency_scores SET grade = CASE ..., committed.
grade_journey_scores ==
    /\ pc = "journey scores upserted"
    /\ pc' = "journey scores graded"
    /\ journey_time_consistency_scores' = UpdateGrades(journey_time_consistency_scores)
    /\ UNCHANGED <<detVars, matchVars, apiVars, extVars, passVars, bunchVars, headway_patterns,
                   patternVars, headway_consistency_scores, schedule_adherence_scores,
                   service_delivery_scores, indexVars, sri_config>>

\* The service-delivery INSERT ... ON CONFLICT, committed.
upsert_delivery_scores ==
    /\ pc = "journey scores graded"
    /\ \E config \in ActiveConfigs(sri_config) :
          IF DeliveryRaises(service_delivery_patterns, config)
          THEN /\ pc' = "calculate_component_scores raised"
               /\ UNCHANGED service_delivery_scores
          ELSE /\ pc' = "delivery scores upserted"
               /\ service_delivery_scores' =
                     UpsertScores(service_delivery_scores,
                                  DeliveryScores(service_delivery_patterns, config))
    /\ UNCHANGED <<detVars, matchVars, apiVars, extVars, passVars, bunchVars, headway_patterns,
                   patternVars, headway_consistency_scores, schedule_adherence_scores,
                   journey_time_consistency_scores, indexVars, sri_config>>

\* UPDATE service_delivery_scores SET grade = CASE ..., committed; the
\* function then prints its summary and returns.
grade_delivery_scores ==
    /\ pc = "delivery scores upserted"
    /\ pc' = "calculate_component_scores"
    /\ service_delivery_scores' = UpdateGrades(service_delivery_scores)
    /\ UNCHANGED <<detVars, matchVars, apiVars, extVars, passVars, bunchVars, headway_patterns,
                   patternVars, headway_consistency_scores, schedule_adherence_scores,
                   journey_time_consistency_scores, indexVars, sri_config>>

ScoreStepsNext ==
    \/ upsert_headway_scores
    \/ grade_headway_scores
    \/ upsert_journey_scores
    \/ grade_journey_scores
    \/ upsert_delivery_scores
    \/ grade_delivery_scores

SpecScoreSteps == ScorerInit /\ [][ScoreStepsNext]_vars

\* C18: at every point of a run of calculate_component_scores at which a
\* reader can query the score tables, every row of headway_consistency_scores,
\* journey_time_consistency_scores and service_delivery_scores has the grade
\* of its score.
C18_NoPartialScores ==
    \A r \in ComponentScoreRows : r.grade = GradeBucket(r.score)

(***************************************************************************)
(* Specification SpecDetector: find_stop_events on every bounded list.     *)
(***************************************************************************)
MaxPositions == 3

DetVehicles == {"V1", "V2"}

DetLocations == {<<0, 0>>, <<4, 0>>, <<8, 0>>, <<0, 5>>}

DetTimes == 1..3

DetPositions ==
    {[vehicle_id |-> v, route_name |-> "14", direction |-> NULL,
      latitude |-> l[1], longitude |-> l[2], timestamp |-> t] :
        v \in DetVehicles, l \in DetLocations, t \in DetTimes}

DetInit ==
    /\ ApiIdle
    /\ ExtIdle
    /\ pc = "input"
    /\ positions_list \in SeqsUpTo(DetPositions, MaxPositions)
    /\ stop_events = <<>>
    /\ MatchIdle
    /\ PassIdle
    /\ StatIdle

DetFindStopEvents ==
    /\ pc = "input"
    /\ IF find_stop_events_raises(positions_list)
       THEN /\ pc' = "find_stop_events raised"
            /\ stop_events' = stop_events
       ELSE /\ pc' = "find_stop_events"
            /\ stop_events' = find_stop_events(positions_list)
    /\ UNCHANGED <<positions_list, matchVars, apiVars, extVars, passVars, statVars>>

DetNext == DetFindStopEvents

SpecDetector == DetInit /\ [][DetNext]_vars

\* The vehicle's timeline in timestamp order, as the detector scans it.
Timeline(v) == SortByTimestamp(ByVehicle(positions_list, v))

EventsOf(v) == SelectSeq(stop_events, LAMBDA e : e.vehicle_id = v)

\* Event e is a maximal run of n >= 2 samples of tl, starting at index i, all at
\* the location of its first sample.
IsRunAt(e, tl, i) ==
    LET n == e.poll_count
    IN  /\ n >= 2
        /\ i + n - 1 <= Len(tl)
        /\ e.latitude = tl[i].latitude
        /\ e.longitude = tl[i].longitude
        /\ e.stop_timestamp = tl[i].timestamp
        /\ \A k \in i..(i + n - 1) : SameLocation(tl[k], tl[i])
        /\ (i + n <= Len(tl) => ~SameLocation(tl[i + n], tl[i]))

HasAdjacentSameLocation(tl) ==
    \E k \in 1..(Len(tl) - 1) : SameLocation(tl[k + 1], tl[k])

\* C1: for each vehicle taken in timestamp order, a stop event is emitted iff the
\* vehicle has at least 2 consecutive same-location samples; each event is a run
\* of n >= 2 samples with dwell_time_seconds = 10 * n; a run of one sample (and
\* so a timeline without two consecutive same-location samples) yields no event.
C1_StopEventIffRun ==
    pc = "find_stop_events" =>
        \A v \in DetVehicles :
            LET tl == Timeline(v)
                ev == EventsOf(v)
            IN  /\ (ev # <<>>) <=> HasAdjacentSameLocation(tl)
                /\ \A x \in 1..Len(ev) :
                      /\ ev[x].poll_count >= 2
                      /\ ev[x].dwell_time_seconds = 10 * ev[x].poll_count
                      /\ \E i \in 1..Len(tl) : IsRunAt(ev[x], tl, i)
                /\ SumSeq([x \in 1..Len(ev) |-> ev[x].poll_count]) <= Len(tl)

\* Samples k and k + 1 of timeline tl belong to one emitted stop event.
InSameEvent(ev, tl, k) ==
    \E x \in 1..Len(ev) : \E i \in 1..Len(tl) :
        /\ IsRunAt(ev[x], tl, i)
        /\ i <= k
        /\ k + 1 <= i + ev[x].poll_count - 1

\* C23: two adjacent samples of one vehicle that are within the same-location
\* tolerance of each other belong to the same stop event.
C23_AdjacentStayTogether ==
    pc = "find_stop_events" =>
        \A v \in DetVehicles :
            \A k \in 1..(Len(Timeline(v)) - 1) :
                SameLocation(Timeline(v)[k + 1], Timeline(v)[k])
                    => InSameEvent(EventsOf(v), Timeline(v), k)

\* C1 witness: a vehicle dwelt for three samples and one event of 30 seconds was
\* emitted for it.
C1_Witness ==
    /\ pc = "find_stop_events"
    /\ \E v \in DetVehicles :
          /\ Len(Timeline(v)) = 3
          /\ Len(EventsOf(v)) = 1
          /\ EventsOf(v)[1].poll_count = 3
          /\ EventsOf(v)[1].dwell_time_seconds = 30

(***************************************************************************)
(* Specification SpecMalformed: positions with a missing coordinate.  An    *)
(* execution either calls find_stop_events on a bounded list, or runs       *)
(* detect_and_match_stops over a table vehicle_positions, where some        *)
(* latitude or longitude may be None.                                       *)
(***************************************************************************)
MalformedLocations == {<<0, 0>>, <<None, 0>>, <<0, None>>}

MalformedPositions ==
    {[vehicle_id |-> v, route_name |-> "14", direction |-> NULL,
      latitude |-> l[1], longitude |-> l[2], timestamp |-> t] :
        v \in DetVehicles, l \in MalformedLocations, t \in DetTimes}

\* The tables vehicle_positions of the specification: at most one row of the
\* vehicle per polling round, none analyzed.
MalformedTables ==
    {{[vehicle_id |-> "V1", route_name |-> "14", direction |-> "outbound",
       operator |-> "AMSY", latitude |-> f[t][1], longitude |-> f[t][2],
       timestamp |-> t, analyzed |-> FALSE] : t \in T} :
        T \in SUBSET (1..MaxPassTime),
        f \in [1..MaxPassTime -> MalformedLocations]}

MalformedInit ==
    /\ ApiIdle
    /\ ExtIdle
    /\ \/ /\ pc = "input"
          /\ positions_list \in SeqsUpTo(MalformedPositions, MaxPositions)
          /\ vehicle_positions = {}
       \/ /\ pc = "idle"
          /\ positions_list = <<>>
          /\ vehicle_positions \in MalformedTables
    /\ stop_events = <<>>
    /\ now = MaxPassTime
    /\ vehicle_arrivals = <<>>
    /\ txc_rows = PassTxcRows
    /\ stop_event = [vehicle_id |-> "V1"]
    /\ match_result = NoMatch
    /\ StatIdle

MalformedNext ==
    \/ DetFindStopEvents
    \/ DetectFetch
    \/ DetectFinish

SpecMalformed == MalformedInit /\ [][MalformedNext]_vars

\* The positions of a list that have both coordinates.
WellFormed(ps) == SelectSeq(ps, LAMBDA p : ~FloatRaises(p))

\* C20: no call of find_stop_events and no run of detect_and_match_stops raises
\* because a position lacks its latitude or longitude; find_stop_events returns
\* the stop events of the well-formed positions of its input, and
\* detect_and_match_stops hands the well-formed positions it fetched to
\* find_stop_events.
C20_MalformedSkipped ==
    [][/\ pc' \notin {"find_stop_events raised", "detect_and_match_stops raised"}
       /\ pc' = "find_stop_events"
             => stop_events' = find_stop_events(WellFormed(positions_list))
       /\ (pc = "idle" /\ pc' # "idle")
             => LET fetched == OrderByVehicleTime(
                                   UnanalyzedRecent(vehicle_positions, now))
                IN  positions_list' = WellFormed([i \in 1..Len(fetched) |->
                                                     ToPositionDict(fetched[i])])]_vars

(***************************************************************************)
(* Serving layer (src/api/routes/sri.py): GET /sri/network.                 *)
(***************************************************************************)
\* The rows WHERE day_of_week IS NULL AND hour IS NULL of an index table.
MonthlyRows(table) ==
    SelectSeq(table, LAMBDA r : r.day_of_week = SqlNull /\ r.hour = SqlNull)

\* SELECT year, month ... ORDER BY year DESC, month DESC LIMIT 1 over the
\* monthly rows of network_reliability_index, of which there is one at least.
LatestPeriod(network) ==
    LET monthly == MonthlyRows(network)
        periods == {<<monthly[i].year, monthly[i].month>> : i \in 1..Len(monthly)}
    IN  CHOOSE p \in periods :
            \A q \in periods : q[1] < p[1] \/ (q[1] = p[1] /\ q[2] <= p[2])

\* The year and month the handler queries: the ones given; with either one
\* missing the latest monthly period of the network index, or, the index
\* having none, the given ones completed from datetime.now().
ResolvedPeriod(year, month, network) ==
    IF year = SqlNull \/ month = SqlNull
    THEN IF MonthlyRows(network) # <<>>
         THEN LatestPeriod(network)
         ELSE <<IF year = SqlNull THEN ClockYear ELSE ValueOf(year),
                IF month = SqlNull THEN ClockMonth ELSE ValueOf(month)>>
    ELSE <<ValueOf(year), ValueOf(month)>>

\* ROUND(AVG(column)::numeric, 1): NULL over no rows.
RoundedAvg(values) ==
    IF values = <<>> THEN SqlNull ELSE SqlVal(RatRound(RatAvg(values), 10))

\* The row of the aggregate query of the operator branch: one row whatever the
\* number of rows the WHERE clause keeps.  Over no rows every AVG is NULL, the
\* CASE falls to ELSE 'F' and the counts are 0.
OperatorSummary(index, period, operator_name) ==
    LET rows == SelectSeq(MonthlyRows(index), LAMBDA r :
                    /\ r.year = period[1]
                    /\ r.month = period[2]
                    /\ r.operator = operator_name)
        n == Len(rows)
        sri == [i \in 1..n |-> rows[i].sri_score]
    IN  [network_name |-> operator_name,
         network_sri_score |-> RoundedAvg(sri),
         network_grade |-> IF n = 0 THEN "F" ELSE get_grade(RatAvg(sri)),
         total_routes |-> Cardinality({rows[i].route_name : i \in 1..n}),
         routes_grade_a |-> GradeCount(rows, "A"),
         routes_grade_b |-> GradeCount(rows, "B"),
         routes_grade_c |-> GradeCount(rows, "C"),
         routes_grade_d |-> GradeCount(rows, "D"),
         routes_grade_f |-> GradeCount(rows, "F"),
         avg_headway_score |->
             RoundedAvg([i \in 1..n |-> rows[i].headway_consistency_score]),
         avg_schedule_score |->
             RoundedAvg([i \in 1..n |-> rows[i].schedule_adherence_score]),
         avg_journey_time_score |->
             RoundedAvg([i \in 1..n |-> rows[i].journey_time_consistency_score]),
         avg_service_delivery_score |->
             RoundedAvg([i \in 1..n |-> rows[i].service_delivery_score])]

\* The columns base_query selects from a row of network_reliability_index.
NetworkSummary(row) ==
    [network_name |-> row.network_name,
     network_sri_score |-> SqlVal(row.network_sri_score),
     network_grade |-> row.network_grade,
     total_routes |-> row.total_routes,
     routes_grade_a |-> row.routes_grade_a,
     routes_grade_b |-> row.routes_grade_b,
     routes_grade_c |-> row.routes_grade_c,
     routes_grade_d |-> row.routes_grade_d,
     routes_grade_f |-> row.routes_grade_f,
     avg_headway_score |-> SqlVal(row.avg_headway_score),
     avg_schedule_score |-> SqlVal(row.avg_schedule_score),
     avg_journey_time_score |-> SqlVal(row.avg_journey_time_score),
     avg_service_delivery_score |-> SqlVal(row.avg_service_delivery_score)]

\* The monthly rows of the network index for the period.  base_query returns
\* the one with the latest calculation_timestamp; the tables of the model keep
\* no timestamps, so it may be any of them.
NetworkSummaries(network, period) ==
    LET monthly == MonthlyRows(network)
    IN  {NetworkSummary(monthly[i]) :
            i \in {k \in 1..Len(monthly) : /\ monthly[k].year = period[1]
                                           /\ monthly[k].month = period[2]}}

\* if not result: raise HTTPException(status_code=404, ...), else return result.
ResponseOf(results, period) ==
    IF results = {}
    THEN {[status |-> 404, period |-> period]}
    ELSE {[status |-> 200, period |-> period, body |-> b] : b \in results}

\* The operator contexts of operator_context.py.
ApiOperators ==
    {TransportAuthority,
     [operator_name |-> "Arriva", role |-> "operator"],
     [operator_name |-> "Stagecoach", role |-> "operator"]}

\* The query parameters: each may be absent.
ApiYears == {SqlNull, SqlVal(ClockYear)}

ApiMonths == {SqlNull, SqlVal(ClockMonth), SqlVal(ClockMonth + 1)}

get_network_sri ==
    /\ \E year \in ApiYears, month \in ApiMonths, operator \in ApiOperators :
          LET period == ResolvedPeriod(year, month, network_reliability_index)
              results ==
                  IF operator.role = "operator"
                  THEN {OperatorSummary(service_reliability_index, period,
                                        operator.operator_name)}
                  ELSE NetworkSummaries(network_reliability_index, period)
          IN  /\ api_request' = [year |-> year, month |-> month, operator |-> operator]
              /\ api_response' \in ResponseOf(results, period)
    /\ pc' = "get_network_sri"
    /\ UNCHANGED <<detVars, matchVars, passVars, statVars, extVars>>

(***************************************************************************)
(* Specification SpecApi: the scoring steps of the pipeline and            *)
(* create_monthly_daily_aggregates run over pattern tables of route 14 of  *)
(* Arriva, and GET /sri/network is served in between, for every operator   *)
(* context, with and without year and month.                               *)
(***************************************************************************)
\* The pattern tables of the specification: one or two hours of journey times,
\* with or without a service-delivery row.
ApiJourneyTables ==
    {{ScorerJourneyPattern(8, Rat(1, 10))},
     {ScorerJourneyPattern(8, Rat(1, 10)), ScorerJourneyPattern(9, Rat(9, 20))}}

ApiDeliveryTables == {{}, {ScorerDeliveryPattern(8, Rat(100, 1), 4)}}

ApiInit ==
    /\ ApiIdle
    /\ ExtIdle
    /\ pc = "idle"
    /\ DetIdle
    /\ MatchIdle
    /\ PassIdle
    /\ route_headway_baselines = {}
    /\ route_headway_baselines_hourly = {}
    /\ bunching_by_route_stop_hour = {}
    /\ arrivals_with_baseline = {}
    /\ headway_patterns = {}
    /\ schedule_adherence_patterns = {}
    /\ journey_time_patterns \in ApiJourneyTables
    /\ service_delivery_patterns \in ApiDeliveryTables
    /\ headway_consistency_scores = {}
    /\ schedule_adherence_scores = {}
    /\ journey_time_consistency_scores = {}
    /\ service_delivery_scores = {}
    /\ service_reliability_index = <<>>
    /\ network_reliability_index = <<>>
    /\ sri_config = SriConfigRows

ApiNext ==
    \/ pc = "idle" /\ calculate_component_scores
    \/ Len(network_reliability_index) < MaxNetworkRows /\ calculate_sri_scores
    \/ Len(service_reliability_index) < MaxSriRows /\ create_monthly_daily_aggregates
    \/ get_network_sri

SpecApi == ApiInit /\ [][ApiNext]_vars

\* The rows of monthly SRI data that qualify for a request: for an operator
\* the monthly rows of its routes in service_reliability_index, for the
\* transport authority the monthly rows of network_reliability_index.
QualifyingRows(request, period) ==
    IF request.operator.role = "operator"
    THEN SelectSeq(MonthlyRows(service_reliability_index), LAMBDA r :
             /\ r.year = period[1]
             /\ r.month = period[2]
             /\ r.operator = request.operator.operator_name)
    ELSE SelectSeq(MonthlyRows(network_reliability_index), LAMBDA r :
             r.year = period[1] /\ r.month = period[2])

\* C19: a call of get_network_sri for a year and month without qualifying
\* monthly SRI data answers 404, for the transport authority and for an operator.
C19_NoDataIsNotFound ==
    pc = "get_network_sri" =>
        (QualifyingRows(api_request, api_response.period) = <<>>
            => api_response.status = 404)

(***************************************************************************)
(* Coarse bunching tables (scripts/aggregate_scores.py).  The tables        *)
(* bunching_by_hour and bunching_by_stop exist; bunching_by_day,            *)
(* bunching_by_month and bunching_by_hour_day were dropped by the           *)
(* migration, so steps 3 to 5 are skipped.                                  *)
(***************************************************************************)
\* '1970-01-01', a timestamp before every clock value
Epoch1970 == -1

\* SELECT COALESCE(MAX(last_updated), '1970-01-01') FROM table
MaxLastUpdated(table) ==
    IF table = {} THEN Epoch1970 ELSE SetMax({r.last_updated : r \in table})

\* WHERE last_updated > (SELECT COALESCE(MAX(last_updated), ...) FROM table)
UpdatedSince(source, table) ==
    {r \in source : r.last_updated > MaxLastUpdated(table)}

\* SUM(rate * count) / NULLIF(SUM(count), 0) over a group of rows, given as the
\* sequences of their rates and counts.  Every count is at least 2 (HAVING
\* COUNT(*) >= 2), so the sum is never 0.
WeightedRate(rates, counts) ==
    RatDiv(RatSum([i \in 1..Len(rates) |-> RatTimes(rates[i], counts[i], 1)]),
           Rat(SumSeq(counts), 1))

\* Step 1: the rows the SELECT ... GROUP BY stop_id, hour_of_day proposes.
by_hour_rows(children) ==
    LET keys == {<<r.stop_id, r.hour_of_day>> : r \in children}
        members(k) == {r \in children : r.stop_id = k[1] /\ r.hour_of_day = k[2]}
        group(k) == RowSeq(members(k))
    IN  {[stop_id |-> k[1], hour_of_day |-> k[2],
          avg_bunching_rate |->
              WeightedRate([i \in 1..Len(group(k)) |-> group(k)[i].bunching_rate_pct],
                           [i \in 1..Len(group(k)) |-> group(k)[i].observation_count]),
          total_count |-> SumSeq([i \in 1..Len(group(k)) |-> group(k)[i].observation_count]),
          last_updated |-> SetMax({r.last_updated : r \in members(k)})] :
            k \in keys}

\* Step 2: the rows the SELECT ... JOIN txc_stops ... GROUP BY stop_id, stop_name
\* proposes.  A stop's name is represented by its naptan_id.
by_stop_rows(hours) ==
    LET joined == {bh \in hours : \E ts \in TxcStops : bh.stop_id = ts.naptan_id}
        keys == {bh.stop_id : bh \in joined}
        members(k) == {bh \in joined : bh.stop_id = k}
        group(k) == RowSeq(members(k))
    IN  {[stop_id |-> k, stop_name |-> k,
          avg_bunching_rate |->
              WeightedRate([i \in 1..Len(group(k)) |-> group(k)[i].avg_bunching_rate],
                           [i \in 1..Len(group(k)) |-> group(k)[i].total_count]),
          total_count |-> SumSeq([i \in 1..Len(group(k)) |-> group(k)[i].total_count]),
          last_updated |-> SetMax({bh.last_updated : bh \in members(k)})] :
            k \in keys}

\* total_count = stored total_count + EXCLUDED.total_count
MergedCount(stored, excluded) == stored + excluded

\* ON CONFLICT ... DO UPDATE SET of both coarse tables.
MergeCoarse(row, excluded) ==
    [row EXCEPT !.avg_bunching_rate =
                    RatDiv(RatAdd(RatTimes(row.avg_bunching_rate, row.total_count, 1),
                                  RatTimes(excluded.avg_bunching_rate,
                                           excluded.total_count, 1)),
                           Rat(row.total_count + excluded.total_count, 1)),
                !.total_count = MergedCount(@, excluded.total_count),
                !.last_updated = Max(@, excluded.last_updated)]

\* ON CONFLICT (stop_id, hour_of_day)
SameStopHour(a, b) == a.stop_id = b.stop_id /\ a.hour_of_day = b.hour_of_day

\* ON CONFLICT (stop_id)
SameStop(a, b) == a.stop_id = b.stop_id

\* Step 1: INSERT INTO bunching_by_hour ... ON CONFLICT.
UpsertByHour(table, proposed) ==
    {IF \E b \in proposed : SameStopHour(row, b)
     THEN MergeCoarse(row, CHOOSE b \in proposed : SameStopHour(row, b))
     ELSE row : row \in table}
    \cup {b \in proposed : ~\E row \in table : SameStopHour(row, b)}

\* Step 2: INSERT INTO bunching_by_stop ... ON CONFLICT.
UpsertByStop(table, proposed) ==
    {IF \E b \in proposed : SameStop(row, b)
     THEN MergeCoarse(row, CHOOSE b \in proposed : SameStop(row, b))
     ELSE row : row \in table}
    \cup {b \in proposed : ~\E row \in table : SameStop(row, b)}

\* bunching_by_hour after step 1.
ByHourAfter ==
    UpsertByHour(bunching_by_hour,
                 by_hour_rows(UpdatedSince(bunching_by_route_stop_hour, bunching_by_hour)))

\* bunching_by_stop after step 2, which reads what step 1 committed.
ByStopAfter ==
    UpsertByStop(bunching_by_stop,
                 by_stop_rows(UpdatedSince(ByHourAfter, bunching_by_stop)))

\* aggregate_scores: step 1 and its commit, then step 2 and its commit.
aggregate_scores ==
    /\ bunching_by_hour' = ByHourAfter
    /\ bunching_by_stop' = ByStopAfter
    /\ pc' = "aggregate_scores"
    /\ UNCHANGED <<detVars, matchVars, apiVars, dwell_time_analysis, lockVars,
                   postgis_result, passVars, statVars>>

(***************************************************************************)
(* Specification SpecCoarse: arrivals come in, the clock moves, and the     *)
(* bunching calculation and the coarse aggregation run in any order.        *)
(***************************************************************************)
\* NOW() has a resolution of a microsecond, so no two transactions of the
\* bunching calculation share it: a run stamps its rows later than every stored
\* row.
ClockMoved == \A r \in bunching_by_route_stop_hour : r.last_updated < now

CoarseNext ==
    \/ BunchTick
    \/ InsertArrival
    \/ (ClockMoved /\ calculate_bunching_from_arrivals)
    \/ aggregate_scores

SpecCoarse == BunchInit /\ [][CoarseNext]_vars

\* The sum of observation_count over the bunching_by_route_stop_hour rows of
\* one stop and hour.
ChildObservations(stop_id, hour_of_day) ==
    LET rows == RowSeq({r \in bunching_by_route_stop_hour :
                           r.stop_id = stop_id /\ r.hour_of_day = hour_of_day})
    IN  SumSeq([i \in 1..Len(rows) |-> rows[i].observation_count])

\* The sum of total_count over the bunching_by_hour rows of one stop.
HourObservations(stop_id) ==
    LET rows == RowSeq({r \in bunching_by_hour : r.stop_id = stop_id})
    IN  SumSeq([i \in 1..Len(rows) |-> rows[i].total_count])

\* C29: after any sequence of calculate_bunching_from_arrivals and
\* aggregate_scores passes, once aggregate_scores has run, total_count of every
\* bunching_by_hour row equals the sum of observation_count over the
\* bunching_by_route_stop_hour rows of its stop and hour, and total_count of
\* every bunching_by_stop row equals the sum of total_count over the
\* bunching_by_hour rows of its stop.
C29_CoarseConsistent ==
    pc = "aggregate_scores" =>
        /\ \A bh \in bunching_by_hour :
              bh.total_count = ChildObservations(bh.stop_id, bh.hour_of_day)
        /\ \A bs \in bunching_by_stop :
              bs.total_count = HourObservations(bs.stop_id)

(***************************************************************************)
(* Specification SpecStages: the stages of run_analysis                     *)
(* (cron_scripts/run_analysis_fixed.py) after detect_and_match_stops has    *)
(* returned matched > 0, each of which may fail.  pc holds the stage that   *)
(* ran last and how it ended.                                               *)
(***************************************************************************)
\* The tables no stage of run_analysis writes, and the tables a failed stage
\* leaves as they were after its rollback.
StageRollback == UNCHANGED <<detVars, matchVars, apiVars, extVars, passVars, statVars>>

\* Line 129-132: detect_and_match_stops returned matched > 0 (its arrivals are in
\* vehicle_arrivals) and the stage modules were imported.
StageDetected ==
    /\ pc = "idle"
    /\ vehicle_arrivals # <<>>
    /\ pc' = "detect_and_match_stops"
    /\ StageRollback

\* calculate_bunching_from_arrivals, line 26: psycopg2.connect raises before the
\* try block is entered, so the exception leaves the function.
calculate_bunching_connect_fails ==
    /\ pc = "detect_and_match_stops"
    /\ pc' = "calculate_bunching_from_arrivals raised"
    /\ StageRollback

\* calculate_bunching_from_arrivals, lines 190-197: a statement raises inside
\* the try block; the handler prints, rolls back and returns.
calculate_bunching_statement_fails ==
    /\ pc = "detect_and_match_stops"
    /\ pc' = "calculate_bunching_from_arrivals failed"
    /\ StageRollback

\* Line 134
StageBunching ==
    /\ pc = "detect_and_match_stops"
    /\ calculate_bunching_from_arrivals

\* Line 137 is reached when the call of line 134 returned.
BunchingReturned ==
    pc \in {"calculate_bunching_from_arrivals", "calculate_bunching_from_arrivals failed"}

\* Line 137
StageScores == BunchingReturned /\ aggregate_scores

\* aggregate_scores, lines 243-248: rollback and raise.
aggregate_scores_fails ==
    /\ BunchingReturned
    /\ pc' = "aggregate_scores raised"
    /\ StageRollback

\* Line 138
StageHeadways == pc = "aggregate_scores" /\ aggregate_route_headways

\* aggregate_route_headways, lines 187-192: rollback and raise.
aggregate_route_headways_fails ==
    /\ pc = "aggregate_scores"
    /\ pc' = "aggregate_route_headways raised"
    /\ StageRollback

\* Line 141
StageCleanup == pc = "aggregate_route_headways" /\ cleanup_old_data

\* cleanup_old_data, lines 156-162: rollback and raise.
cleanup_old_data_fails ==
    /\ pc = "aggregate_route_headways"
    /\ pc' = "cleanup_old_data raised"
    /\ StageRollback

\* Lines 144-154: the DELETE of the arrivals older than one hour, then the pass
\* is complete.
StageDeleteArrivals ==
    /\ pc = "cleanup_old_data"
    /\ vehicle_arrivals' = CleanArrivals(vehicle_arrivals, now)
    /\ pc' = "run_analysis complete"
    /\ UNCHANGED <<detVars, matchVars, apiVars, extVars, now, vehicle_positions, statVars>>

\* The stages that ended by raising.
RaisedStages ==
    {"calculate_bunching_from_arrivals raised", "aggregate_scores raised",
     "aggregate_route_headways raised", "cleanup_old_data raised"}

\* Lines 156-160: the handler of run_analysis prints the error and raises it to
\* the caller.
RunAnalysisExcept ==
    /\ pc \in RaisedStages
    /\ pc' = "run_analysis raised"
    /\ StageRollback

\* The pass has ended; the next invocation starts from the idle state.
NextInvocation ==
    /\ pc \in {"run_analysis complete", "run_analysis raised"}
    /\ pc' = "idle"
    /\ StageRollback

\* The clock and the arrivals move between passes.
BetweenPasses == pc = "idle" /\ (BunchTick \/ InsertArrival)

StagesNext ==
    \/ BetweenPasses
    \/ StageDetected
    \/ StageBunching
    \/ calculate_bunching_connect_fails
    \/ calculate_bunching_statement_fails
    \/ StageScores
    \/ aggregate_scores_fails
    \/ StageHeadways
    \/ aggregate_route_headways_fails
    \/ StageCleanup
    \/ cleanup_old_data_fails
    \/ StageDeleteArrivals
    \/ RunAnalysisExcept
    \/ NextInvocation

SpecStages == BunchInit /\ [][StagesNext]_vars

\* The stages that ended in a failure.
FailedStages == RaisedStages \cup {"calculate_bunching_from_arrivals failed"}

\* C21: when a stage of a pass has failed, the next step of the pass is the
\* report of the failure to the caller of run_analysis: no later stage runs.
C21_FailureAborts ==
    [][(pc \in FailedStages) => (pc' = "run_analysis raised")]_vars

(***************************************************************************)
(* Dwell-time aggregation (scripts/aggregate_dwell_times.py).  The column   *)
(* stddev_dwell_seconds, which every fold overwrites with the batch's       *)
(* value, is left out; avg_dwell_seconds is an exact rational.              *)
(***************************************************************************)
\* WHERE dwell_time_seconds IS NOT NULL
WithDwell(arrivals) == SelectSeq(arrivals, LAMBDA va : va.dwell_time_seconds # None)

\* GROUP BY naptan_id, route_name, direction, operator, day_of_week, hour_of_day
DwellKey(va) ==
    <<va.naptan_id, va.route_name, va.direction, va.operator,
      DowOf(va.timestamp), HourOf(va.timestamp)>>

\* The key of a row of dwell_time_analysis.
DwellRowKey(row) ==
    <<row.naptan_id, row.route_name, row.direction, row.operator,
      row.day_of_week, row.hour_of_day>>

\* The dwell times of the arrivals of one group, in table order.
RECURSIVE DwellsOf(_, _)
DwellsOf(arrivals, key) ==
    IF arrivals = <<>> THEN <<>>
    ELSE IF DwellKey(Head(arrivals)) = key /\ Head(arrivals).dwell_time_seconds # None
         THEN <<Head(arrivals).dwell_time_seconds>> \o DwellsOf(Tail(arrivals), key)
         ELSE DwellsOf(Tail(arrivals), key)

\* The rows the SELECT ... GROUP BY proposes.
dwell_batch(arrivals, t) ==
    LET rows == WithDwell(arrivals)
        keys == {DwellKey(rows[i]) : i \in 1..Len(rows)}
    IN  {[naptan_id |-> k[1], route_name |-> k[2], direction |-> k[3], operator |-> k[4],
          day_of_week |-> k[5], hour_of_day |-> k[6],
          avg_dwell_seconds |-> Rat(SumSeq(DwellsOf(arrivals, k)), Len(DwellsOf(arrivals, k))),
          sample_count |-> Len(DwellsOf(arrivals, k)),
          last_updated |-> t] : k \in keys}

\* PRIMARY KEY (naptan_id, route_name, direction, operator, day_of_week,
\* hour_of_day): a key column is NOT NULL, so a proposed row with a NULL in one
\* of them makes the INSERT raise.
PrimaryKeyNull(proposed) ==
    \E r \in proposed : NULL \in {r.naptan_id, r.route_name, r.direction, r.operator}

\* avg_dwell_seconds = (stored avg * stored count + EXCLUDED avg * EXCLUDED count)
\*                     / (stored count + EXCLUDED count)
\* (mutation: the plain mean of the two averages)
RunningAverage_mut(avg, count, batch_avg, batch_count) ==
    RatTimes(RatAdd(avg, batch_avg), 1, 2)

\* avg_dwell_seconds = (stored avg * stored count + EXCLUDED avg * EXCLUDED count)
\*                     / (stored count + EXCLUDED count)
RunningAverage(avg, count, batch_avg, batch_count) ==
    RatDiv(RatAdd(RatTimes(avg, count, 1), RatTimes(batch_avg, batch_count, 1)),
           Rat(count + batch_count, 1))

\* ON CONFLICT (...) DO UPDATE SET
MergeDwell(row, excluded) ==
    [row EXCEPT !.avg_dwell_seconds =
                    RunningAverage(row.avg_dwell_seconds, row.sample_count,
                                   excluded.avg_dwell_seconds, excluded.sample_count),
                !.sample_count = @ + excluded.sample_count,
                !.last_updated = excluded.last_updated]

\* INSERT INTO dwell_time_analysis ... ON CONFLICT of the proposed rows.
UpsertDwell(table, proposed) ==
    {IF \E b \in proposed : DwellRowKey(b) = DwellRowKey(row)
     THEN MergeDwell(row, CHOOSE b \in proposed : DwellRowKey(b) = DwellRowKey(row))
     ELSE row : row \in table}
    \cup {b \in proposed : ~\E row \in table : DwellRowKey(b) = DwellRowKey(row)}

\* aggregate_dwell_times: the INSERT ... ON CONFLICT and the DELETE of the
\* processed arrivals in one transaction; when the INSERT raises, the handler
\* rolls back and raises.
aggregate_dwell_times ==
    /\ \A row \in dwell_time_analysis : row.sample_count < MaxObservations
    /\ IF PrimaryKeyNull(dwell_batch(vehicle_arrivals, now))
       THEN /\ pc' = "aggregate_dwell_times raised"
            /\ UNCHANGED <<dwell_time_analysis, vehicle_arrivals>>
       ELSE /\ pc' = "aggregate_dwell_times"
            /\ dwell_time_analysis' =
                  UpsertDwell(dwell_time_analysis, dwell_batch(vehicle_arrivals, now))
            /\ vehicle_arrivals' =
                  SelectSeq(vehicle_arrivals, LAMBDA va : va.dwell_time_seconds = None)
    /\ UNCHANGED <<detVars, matchVars, apiVars, bunching_by_hour, bunching_by_stop,
                   lockVars, postgis_result, now, vehicle_positions, statVars>>

\* aggregate_dwell_times when the store fails before the commit of line 81: the
\* handler rolls back and raises.
aggregate_dwell_times_fails ==
    /\ pc' = "aggregate_dwell_times raised"
    /\ UNCHANGED <<detVars, matchVars, apiVars, extVars, passVars, statVars>>

(***************************************************************************)
(* Specification SpecDwell: matched arrivals come in and                    *)
(* aggregate_dwell_times folds them, or fails.                              *)
(***************************************************************************)
\* The clock of the specification, in the second modelled hour.
DwellNow == 366

\* The most arrivals that wait in vehicle_arrivals for the next fold.
MaxPending == 2

\* The arrivals that may be stored: at stop S12 of route 14 in two hours with a
\* dwell of 20 or 30 seconds, one arrival without a dwell time and one whose
\* direction is unknown.
DwellArrivals ==
    {[vehicle_id |-> "V1", route_name |-> "14", direction |-> "outbound",
      operator |-> "Arriva", naptan_id |-> "S12", timestamp |-> t,
      distance_sq |-> 1440000, dwell_time_seconds |-> w] :
        t \in {300, 360}, w \in {20, 30}}
    \cup
    {[vehicle_id |-> "V1", route_name |-> "14", direction |-> "outbound",
      operator |-> "Arriva", naptan_id |-> "S12", timestamp |-> 360,
      distance_sq |-> 1440000, dwell_time_seconds |-> None]}
    \cup
    {[vehicle_id |-> "V1", route_name |-> "14", direction |-> NULL,
      operator |-> "Arriva", naptan_id |-> "S12", timestamp |-> 360,
      distance_sq |-> 1440000, dwell_time_seconds |-> 20]}

DwellInit ==
    /\ ApiIdle
    /\ ExtIdle
    /\ pc = "idle"
    /\ DetIdle
    /\ MatchIdle
    /\ StatIdle
    /\ now = DwellNow
    /\ vehicle_positions = {}
    /\ vehicle_arrivals = <<>>

\* INSERT INTO vehicle_arrivals of one arrival.
InsertDwellArrival ==
    /\ Len(vehicle_arrivals) < MaxPending
    /\ \E va \in DwellArrivals : vehicle_arrivals' = Append(vehicle_arrivals, va)
    /\ pc' = "idle"
    /\ UNCHANGED <<detVars, matchVars, apiVars, extVars, now, vehicle_positions, statVars>>

\* The DELETE of cleanup_old_data that removes the oldest arrival.
DeleteOldestArrival ==
    /\ vehicle_arrivals # <<>>
    /\ vehicle_arrivals' = Tail(vehicle_arrivals)
    /\ pc' = "idle"
    /\ UNCHANGED <<detVars, matchVars, apiVars, extVars, now, vehicle_positions, statVars>>

DwellNext ==
    \/ InsertDwellArrival
    \/ DeleteOldestArrival
    \/ aggregate_dwell_times
    \/ aggregate_dwell_times_fails

SpecDwell == DwellInit /\ [][DwellNext]_vars

\* The stored rows of one bucket.
BucketRows(table, key) == {row \in table : DwellRowKey(row) = key}

\* The number of arrivals folded into a bucket and the sum of their dwell times,
\* as the stored row records them.
FoldedCount(table, key) ==
    IF BucketRows(table, key) = {} THEN 0
    ELSE (CHOOSE row \in BucketRows(table, key) : TRUE).sample_count

FoldedSum(table, key) ==
    IF BucketRows(table, key) = {} THEN Rat(0, 1)
    ELSE LET row == CHOOSE r \in BucketRows(table, key) : TRUE
         IN  RatTimes(row.avg_dwell_seconds, row.sample_count, 1)

\* The keys of the stored rows and of the arrivals.
DwellKeys == {DwellRowKey(row) : row \in dwell_time_analysis}
                 \cup {DwellKey(va) : va \in DwellArrivals}

C24_WitnessFailed ==
    /\ pc = "aggregate_dwell_times raised"
    /\ dwell_time_analysis # {}
    /\ \E i \in 1..Len(vehicle_arrivals) : vehicle_arrivals[i].direction = NULL

(***************************************************************************)
(* Specification SpecConfig: one pass of the two scoring steps of          *)
(* run_sri_pipeline while sri_config is changed from outside.              *)
(***************************************************************************)
\* Every configuration row an sri_config table of the specification holds.
ConfigRows == UNION ScorerConfigTables

\* An administrator replaces the contents of sri_config; no script of the
\* repository writes the table, and nothing keeps it fixed during a pass.
sri_config_changed ==
    /\ pc \in {"idle", "calculate_component_scores"}
    /\ \E table \in ScorerConfigTables : table # sri_config /\ sri_config' = table
    /\ UNCHANGED <<pc, detVars, matchVars, apiVars, extVars, passVars, bunchVars,
                   headway_patterns, patternVars, scoreVars, indexVars>>

ConfigNext ==
    \/ sri_config_changed
    \/ pc = "idle" /\ calculate_component_scores
    \/ pc = "calculate_component_scores" /\ calculate_sri_scores

SpecConfig == ScorerInit /\ [][ConfigNext]_vars

\* The two steps ran as if no configuration was active.
RanWithoutConfig ==
    /\ headway_consistency_scores = {}
    /\ journey_time_consistency_scores = {}
    /\ service_delivery_scores = {}
    /\ service_reliability_index = <<>>

\* The score tables are those the anchors of config produce from the pattern
\* tables, and the index is the one the weights of config produce from them.
RanWithConfig(config) ==
    /\ ~HeadwayRaises(headway_patterns, config)
    /\ ~JourneyRaises(journey_time_patterns, config)
    /\ ~DeliveryRaises(service_delivery_patterns, config)
    /\ headway_consistency_scores =
          UpdateGrades(UpsertScores({}, HeadwayScores(headway_patterns, config)))
    /\ journey_time_consistency_scores =
          UpdateGrades(UpsertScores({}, JourneyScores(journey_time_patterns, config)))
    /\ service_delivery_scores =
          UpdateGrades(UpsertScores({}, DeliveryScores(service_delivery_patterns,
                                                       config)))
    /\ service_reliability_index =
          UpsertSri(<<>>, RowSeq(component_scores(headway_consistency_scores,
                                                  schedule_adherence_scores,
                                                  journey_time_consistency_scores,
                                                  service_delivery_scores, config)),
                    TRUE)

\* C25: when the two scoring steps of a pass have run, one configuration row
\* accounts for both the anchors behind the component scores and the weights
\* behind the index (or both steps found no active configuration).
C25_OneConfigurationPerPass ==
    pc = "calculate_sri_scores" =>
        \/ RanWithoutConfig
        \/ \E config \in ConfigRows : RanWithConfig(config)


(***************************************************************************)
(* Specification SpecLock: the entry points of cron_scripts/run_analysis.py *)
(* and run_analysis_fixed.py, started by cron as two invocations that may   *)
(* overlap on one host.  Both use the lock file /tmp/pt_analysis.lock.  pc  *)
(* is the position of the pass that runs; the pass is that of               *)
(* run_analysis.py: its arrivals are inserted, then the dwell times are     *)
(* aggregated.                                                              *)
(***************************************************************************)
\* What the entry point leaves alone.
EntryPointUnchanged ==
    UNCHANGED <<detVars, matchVars, apiVars, aggVars, postgis_result, passVars,
                statVars>>

\* lock_fd = open(LOCK_FILE, 'w'): cron starts the script.
open_lock_file(i) ==
    /\ invocation[i] \in {"not started", "exited", "ended"}
    /\ invocation' = [invocation EXCEPT ![i] = "open"]
    /\ UNCHANGED <<pc, lock_holder>>
    /\ EntryPointUnchanged

flock_mut(holder) == TRUE

\* fcntl.flock(lock_fd, LOCK_EX | LOCK_NB) succeeds when no open file holds the
\* lock, and raises IOError otherwise.
flock(holder) == holder = "none"

\* The lock is acquired: the script goes on to run_analysis().
lock_acquired(i) ==
    /\ invocation[i] = "open"
    /\ flock(lock_holder)
    /\ lock_holder' = i
    /\ invocation' = [invocation EXCEPT ![i] = "run_analysis"]
    /\ UNCHANGED pc
    /\ EntryPointUnchanged

\* except IOError: print and sys.exit(0).
lock_held_exit(i) ==
    /\ invocation[i] = "open"
    /\ ~flock(lock_holder)
    /\ invocation' = [invocation EXCEPT ![i] = "exited"]
    /\ UNCHANGED <<pc, lock_holder>>
    /\ EntryPointUnchanged

\* A pass is in run_analysis() and has not reached aggregate_dwell_times.
PassRunning ==
    /\ pc = "idle"
    /\ \E i \in Invocations : invocation[i] = "run_analysis"

\* The arrivals a pass may insert: one that can be folded and one whose
\* direction is unknown, on which aggregate_dwell_times raises.
LockArrivals ==
    {va \in DwellArrivals : va.timestamp = 360 /\ va.dwell_time_seconds = 20}

\* detect_and_match_stops inserts an arrival of the pass into vehicle_arrivals.
InsertMatchedArrival ==
    /\ Len(vehicle_arrivals) < MaxPending
    /\ \E va \in LockArrivals : vehicle_arrivals' = Append(vehicle_arrivals, va)
    /\ UNCHANGED <<pc, detVars, matchVars, apiVars, extVars, now, vehicle_positions,
                   statVars>>

\* finally: fcntl.flock(lock_fd, LOCK_UN) and close, after run_analysis()
\* returned or raised at any of its stages; the process ends.
lock_released(i) ==
    /\ invocation[i] = "run_analysis"
    /\ lock_holder' = "none"
    /\ invocation' = [invocation EXCEPT ![i] = "ended"]
    /\ pc' = "idle"
    /\ EntryPointUnchanged

LockNext ==
    \/ \E i \in Invocations : open_lock_file(i)
    \/ \E i \in Invocations : lock_acquired(i)
    \/ \E i \in Invocations : lock_held_exit(i)
    \/ PassRunning /\ InsertMatchedArrival
    \/ PassRunning /\ aggregate_dwell_times
    \/ PassRunning /\ aggregate_dwell_times_fails
    \/ \E i \in Invocations : lock_released(i)

SpecLock == DwellInit /\ [][LockNext]_vars

\* The invocations that are inside run_analysis().
RunningPasses == {i \in Invocations : invocation[i] = "run_analysis"}

\* The tables of the store a pass of run_analysis.py reads and writes.
storeVars == <<vehicle_positions, vehicle_arrivals, dwell_time_analysis>>

\* C26: at most one invocation is inside run_analysis() at any time; the lock
\* is held exactly while a pass runs, so it is free again when the pass has
\* ended by returning or by raising; an invocation is turned away only while
\* another holds the lock, it leaves the store as it is when it exits, and
\* the store changes only in steps of the invocation that holds the lock.
C26_OnePassAtATime ==
    /\ [](Cardinality(RunningPasses) <= 1)
    /\ [](RunningPasses = IF lock_holder = "none" THEN {} ELSE {lock_holder})
    /\ [][\A i \in Invocations :
             (invocation[i] = "open" /\ invocation'[i] = "exited")
                => (RunningPasses \ {i} # {} /\ UNCHANGED storeVars)]_vars
    /\ [][(storeVars' # storeVars)
             => (lock_holder # "none" /\ UNCHANGED <<lock_holder, invocation>>)]_vars

\* C26 witness: one invocation was turned away while the other was in a pass
\* that has written the store.
C26_Witness ==
    /\ \E i \in Invocations : invocation[i] = "exited"
    /\ \E i \in Invocations : invocation[i] = "run_analysis"
    /\ pc = "aggregate_dwell_times"
    /\ dwell_time_analysis # {}

\* C26 second witness: the lock is held again after a pass that raised has ended
\* and after the other invocation had been turned away.
C26_WitnessAgain ==
    /\ invocation["cron1"] = "ended"
    /\ invocation["cron2"] = "run_analysis"
    /\ lock_holder = "cron2"
    /\ dwell_time_analysis = {}
    /\ \E k \in 1..Len(vehicle_arrivals) : vehicle_arrivals[k].direction = NULL


(***************************************************************************)
(* Specification SpecAdherence: arrivals around the scheduled time 08:32   *)
(* of stop S12 and 08:28 of stop S30 come in, the clock moves and          *)
(* aggregate_schedule_adherence_patterns runs again and again.             *)
(***************************************************************************)
\* Arrivals at S12 3 minutes early, 1 minute early, 5 minutes late and 6
\* minutes late, and an arrival at S30 2 minutes late.
AdherenceUniverse ==
    {[vehicle_id |-> "V1", route_name |-> "14", direction |-> "outbound",
      operator |-> "Arriva", naptan_id |-> "S12", timestamp |-> m * RoundsPerMinute,
      distance_sq |-> 1440000, dwell_time_seconds |-> 20] : m \in {29, 31, 37, 38}}
    \cup
    {[vehicle_id |-> "V2", route_name |-> "14", direction |-> "outbound",
      operator |-> "Arriva", naptan_id |-> "S30", timestamp |-> 30 * RoundsPerMinute,
      distance_sq |-> 9000000, dwell_time_seconds |-> 20]}

AdherenceInit ==
    /\ ApiIdle
    /\ ExtIdle
    /\ pc = "idle"
    /\ DetIdle
    /\ MatchIdle
    /\ StatIdle
    /\ now = 38 * RoundsPerMinute
    /\ vehicle_positions = {}
    /\ vehicle_arrivals = <<>>

\* INSERT INTO vehicle_arrivals of one matched arrival, in order of timestamp.
InsertAdherenceArrival ==
    /\ Len(vehicle_arrivals) < MaxArrivals
    /\ \E va \in AdherenceUniverse :
          /\ va.timestamp <= now
          /\ \A i \in 1..Len(vehicle_arrivals) :
                vehicle_arrivals[i].timestamp < va.timestamp
          /\ vehicle_arrivals' = Append(vehicle_arrivals, va)
    /\ pc' = "idle"
    /\ UNCHANGED <<detVars, matchVars, apiVars, extVars, now, vehicle_positions, statVars>>

\* Every schedule adherence count is below its cap.
AdherenceRoom ==
    \A row \in schedule_adherence_patterns : row.observation_count < MaxObservations

AdherenceNext ==
    \/ SriTick
    \/ InsertAdherenceArrival
    \/ AdherenceRoom /\ aggregate_schedule_adherence_patterns

SpecAdherence == AdherenceInit /\ [][AdherenceNext]_vars

\* The entries of adherence_data of the pass that belong to the key of row.
EntriesOf(row) ==
    {d \in adherence_data(ArrivalRows(vehicle_arrivals), now) :
        AdherenceKey(d) = AdherenceRowKey(row)}

\* What the column of row held before the pass, 0 for a new row.
CountBefore(row, column) ==
    LET stored == {r \in schedule_adherence_patterns :
                      AdherenceRowKey(r) = AdherenceRowKey(row)}
    IN  IF stored = {} THEN 0 ELSE (CHOOSE r \in stored : TRUE)[column]

\* on_time_percentage is 100 * on_time_count / observation_count to 2 decimals:
\* it is a number of hundredths at most half a hundredth away.
PercentageOfCounts(row) ==
    /\ 100 % row.on_time_percentage.d = 0
    /\ 200 * Abs(row.on_time_percentage.n * row.observation_count
                    - 100 * row.on_time_count * row.on_time_percentage.d)
          <= row.on_time_percentage.d * row.observation_count

\* C30: every row of schedule_adherence_patterns has on_time_count + early_count
\* + late_count = observation_count > 0 and on_time_percentage = 100 *
\* on_time_count / observation_count to 2 decimals, and a pass adds to the three
\* counts of a row the fetched arrivals of its key whose deviation is from -1 to
\* 5 minutes, below -1 minute, and above 5 minutes.
C30_CountsAddUp ==
    /\ [](\A row \in schedule_adherence_patterns :
             /\ row.observation_count > 0
             /\ row.on_time_count + row.early_count + row.late_count
                   = row.observation_count
             /\ PercentageOfCounts(row))
    /\ [][\A row \in schedule_adherence_patterns' :
             /\ row.on_time_count - CountBefore(row, "on_time_count") =
                   Cardinality({d \in EntriesOf(row) :
                                   /\ -1 * RoundsPerMinute <= d.deviation
                                   /\ d.deviation <= 5 * RoundsPerMinute})
             /\ row.early_count - CountBefore(row, "early_count") =
                   Cardinality({d \in EntriesOf(row) :
                                   d.deviation < -1 * RoundsPerMinute})
             /\ row.late_count - CountBefore(row, "late_count") =
                   Cardinality({d \in EntriesOf(row) :
                                   d.deviation > 5 * RoundsPerMinute})
         ]_schedule_adherence_patterns

\* C30 witness: after at least two passes the row of stop S12 holds arrivals of
\* all three kinds and an on-time share that is not a whole percentage, and
\* stop S30 has a row too.
C30_Witness ==
    /\ pc = "aggregate_schedule_adherence_patterns"
    /\ \E row \in schedule_adherence_patterns :
          /\ row.stop_id = "S12"
          /\ row.on_time_count > 1 /\ row.early_count > 0 /\ row.late_count > 0
          /\ row.observation_count > MaxObservations
          /\ row.on_time_percentage.d # 1
    /\ \E row \in schedule_adherence_patterns : row.stop_id = "S30"


====
